---- MODULE Spec2Model ----
(***************************************************************************)
(* The session/topic pub-sub engine of package push (push_topic.go).       *)
(*                                                                         *)
(* Actors: the session manager (sessionMgrLoop), the topic manager         *)
(* (topicMgrLoop, with its cleanup ticker), one topic worker per started   *)
(* topic (Topic.Loop), and the callers of the package API (OpenSession,    *)
(* CloseSession, Subscribe, Unsubscribe, Publish, PushToUser) together     *)
(* with the consumers that drain the payload ducts.                        *)
(*                                                                         *)
(* Go channels are sequences bounded by their buffer size; a send blocks   *)
(* (the action is disabled) while the buffer is full and panics when the   *)
(* channel is closed.  A panic is not recovered anywhere in the package,   *)
(* so it ends the process: `panicked` becomes TRUE and no action is        *)
(* enabled afterwards.                                                     *)
(***************************************************************************)
EXTENDS Naturals, Sequences, FiniteSets, TLC

\* Bounds of the model.
MaxCalls == 4
\* Buffer sizes of the command and payload ducts (200 in push_topic.go),
\* scaled down so that full buffers are reached.
CMD_DUCT_BUFFER_MAX == 3
DATA_DUCT_BUFFER_MAX == 2

\* The identifiers the callers draw their arguments from.
UserIds == {"u1"}
SessionIds == {"a"}
Uris == {"t1"}

VARIABLES
    sessionsUsers,      \* sessions.users: userId -> (SessionKey -> duct of the Session)
    sessionsCmdDuct,    \* sessions.cmdDuct
    topicsTopics,       \* topics.topics: uri -> topic (index into topicList)
    topicsSubscriptions,\* topics.subscriptions: SessionKey -> set of uris
    topicsCmdDuct,      \* topics.cmdDuct
    topicList,          \* every Topic started so far (the heap of *Topic)
    ducts,              \* every payload duct made by OpenSession
    sweep,              \* position of topicMgrLoop inside the cleanup sweep
    egress,             \* processEgress calls between the directory read and the send
    pushCall,           \* the PushToUser call in progress (holds sessions.RLock)
    panicked,           \* a goroutine panicked: the process is gone
    nTopicCmds,         \* number of TopicCmd made by Subscribe, Unsubscribe, CloseSession
    nPayloads,          \* number of Payloads built by Publish and PushToUser
    returned,           \* history: the Subscribe commands whose call has returned
    lastCall,           \* history: (SessionKey, uri) -> the last Subscribe/Unsubscribe call
    dropped,            \* history: the payloads processEgress found no topic for
    owed,               \* history: payload -> its uri, and the ducts ready for it when it was
                        \* published, each with the Subscribe call that made it ready
    pushed,             \* history: user -> the payloads PushToUser built for the user, in call order
    sessSent,           \* history: session commands in the order they were sent
    sessApplied,        \* history: session commands in the order sessionMgrLoop applied them
    fanned              \* history: payload -> topic and subscribers when its fan-out began

VARIABLES
    DisableBroker,      \* push.DisableBroker, read from the configuration by initNats
    callBudget,         \* the number of API calls the callers of this run make
    broker,             \* the payloads Publish handed to the broker (econn.Publish), in order
    fromBroker,         \* history: the payloads the broker's subscription delivered
    calls               \* history: Publish and PushToUser call -> what it found, whether it
                        \* invoked BuildPushPayload, and what it returned

VARIABLES
    wire,               \* the websocket: messages in flight each way, and which ends closed it
    conn,               \* the server's Conn: envelope, positions of apiLoop and pushLoop
    client,             \* the Client: position of readLoop, readLoopSync, connErrorCb calls
    restExec,           \* the RestExec calls: the one in progress and the ones that returned
    now                 \* the clock, in the unit of time.Duration

vars == <<sessionsUsers, sessionsCmdDuct, topicsTopics, topicsSubscriptions,
          topicsCmdDuct, topicList, ducts, sweep, egress, pushCall, panicked,
          nTopicCmds, nPayloads, returned, lastCall, dropped, owed, pushed, sessSent,
          sessApplied, fanned, DisableBroker, callBudget, broker, fromBroker, calls,
          wire, conn, client, restExec, now>>

\* The state of the session registry and of the topic registry.
sessionVars == <<sessionsUsers, sessionsCmdDuct, sessSent, sessApplied>>

topicVars == <<topicsTopics, topicsSubscriptions, topicsCmdDuct, topicList, sweep>>

\* The counters and the history of the API calls.
callVars == <<nTopicCmds, nPayloads, returned, lastCall, dropped, owed, pushed>>

\* The state of the connection protocol (package wapi).
wapiVars == <<wire, conn, client, restExec, now>>

\* The broker switch, the payloads at the broker and the history of the
\* producers' calls; the calls the callers make.
brokerVars == <<DisableBroker, callBudget, broker, fromBroker, calls>>

\* The state of package push.
engineVars == <<sessionVars, topicVars, callVars, ducts, egress, pushCall, panicked, fanned,
                brokerVars>>

\* The API calls made so far.
NumCalls == Len(ducts) + nTopicCmds + nPayloads

----------------------------------------------------------------------------
\* Maps with a changing key set.

EmptyMap == [x \in {} |-> 0]

MapPut(f, k, v) == [x \in (DOMAIN f) \cup {k} |-> IF x = k THEN v ELSE f[x]]

MapDel(f, k) == [x \in (DOMAIN f) \ {k} |-> f[x]]

Range(f) == {f[x] : x \in DOMAIN f}

IsPrefix(s, t) == Len(s) <= Len(t) /\ SubSeq(t, 1, Len(s)) = s

RECURSIVE CountIn(_, _)
CountIn(x, s) == IF s = <<>> THEN 0
                 ELSE (IF Head(s) = x THEN 1 ELSE 0) + CountIn(x, Tail(s))

\* skey := SessionKey(userId + ":" + sessionId)
SessionKeyOf(userId, sessionId) == userId \o ":" \o sessionId

\* The keys of the sessions the callers may open.
SessionKeys == {SessionKeyOf(u, s) : u \in UserIds, s \in SessionIds}

----------------------------------------------------------------------------
\* Session registry.

\* The mutation of ONLINE: the session is not recorded.
ApplyOnlineNothing(users, sc) == users

\* case ONLINE: sessions.users[sc.userId][skey] = &Session{payloadDuct: sc.payloadDuct}
ApplyOnline(users, sc) ==
    LET skey == SessionKeyOf(sc.userId, sc.sessionId)
        entry == IF sc.userId \in DOMAIN users THEN users[sc.userId] ELSE EmptyMap
    IN  MapPut(users, sc.userId, MapPut(entry, skey, sc.payloadDuct))

\* The mutation of OFFLINE with the duct comparison left out.
ApplyOfflineAnyDuct(users, sc) ==
    LET skey == SessionKeyOf(sc.userId, sc.sessionId)
    IN  IF sc.userId \notin DOMAIN users THEN users
        ELSE LET left == MapDel(users[sc.userId], skey)
             IN  IF DOMAIN left = {} THEN MapDel(users, sc.userId)
                 ELSE MapPut(users, sc.userId, left)

\* case OFFLINE: delete the session only if the duct pointer matches, then
\* delete the user entry when it has no session left.
ApplyOffline(users, sc) ==
    LET skey == SessionKeyOf(sc.userId, sc.sessionId)
    IN  IF sc.userId \notin DOMAIN users THEN users
        ELSE LET entry == users[sc.userId]
                 left == IF skey \in DOMAIN entry /\ entry[skey] = sc.payloadDuct
                         THEN MapDel(entry, skey) ELSE entry
             IN  IF DOMAIN left = {} THEN MapDel(users, sc.userId)
                 ELSE MapPut(users, sc.userId, left)

\* lookupSession: the Session under the key, 0 (nil) when there is none.
lookupSession(userId, sessionId) ==
    LET skey == SessionKeyOf(userId, sessionId)
    IN  IF userId \in DOMAIN sessionsUsers /\ skey \in DOMAIN sessionsUsers[userId]
        THEN sessionsUsers[userId][skey] ELSE 0

\* sessions.RWMutex: PushToUser holds the read lock across its sends.
SessionsReadLocked == pushCall # <<>>

\* The mutation of a receive: the newest command is taken, not the oldest.
DequeueNewest(duct) ==
    [cmd |-> duct[Len(duct)], rest |-> SubSeq(duct, 1, Len(duct) - 1)]

\* tc := <-cmdDuct on a buffered channel: the oldest command, and what stays.
Dequeue(duct) == [cmd |-> Head(duct), rest |-> Tail(duct)]

\* OpenSession: make the duct, send ONLINE, and with wait block on cmd.wg
\* until sessionMgrLoop has applied it.  `opened` records that the call has
\* returned the duct to its caller, `clear` the CLEAR that CloseSession sent
\* for the duct (0 before).
OpenSession(userId, sessionId, wait) ==
    LET duct == Len(ducts) + 1
        sc == [cmd |-> "ONLINE", userId |-> userId, sessionId |-> sessionId,
               payloadDuct |-> duct, signalDone |-> wait]
    IN  /\ ~panicked
        /\ NumCalls < callBudget
        /\ Len(sessionsCmdDuct) < CMD_DUCT_BUFFER_MAX
        /\ ducts' = Append(ducts, [userId |-> userId, sessionId |-> sessionId,
                                   buf |-> <<>>, closed |-> FALSE, closing |-> 0,
                                   clear |-> 0,
                                   written |-> <<>>, opened |-> ~wait])
        /\ sessionsCmdDuct' = Append(sessionsCmdDuct, sc)
        /\ sessSent' = Append(sessSent, sc)
        /\ UNCHANGED <<sessionsUsers, sessApplied, topicVars, callVars, egress, pushCall,
                       panicked, fanned, brokerVars, wapiVars>>

\* sessionMgrLoop, one command: ONLINE or OFFLINE under sessions.Lock(), then
\* sc.wg.Done() for an ONLINE that asked for it.
SessionMgr ==
    /\ ~panicked
    /\ sessionsCmdDuct # <<>>
    /\ ~SessionsReadLocked
    /\ LET sc == Dequeue(sessionsCmdDuct).cmd
       IN  /\ sessionsCmdDuct' = Dequeue(sessionsCmdDuct).rest
           /\ sessionsUsers' = IF sc.cmd = "ONLINE" THEN ApplyOnline(sessionsUsers, sc)
                               ELSE ApplyOffline(sessionsUsers, sc)
           /\ ducts' = IF sc.cmd = "ONLINE" /\ sc.signalDone
                       THEN [ducts EXCEPT ![sc.payloadDuct].opened = TRUE] ELSE ducts
           /\ sessApplied' = Append(sessApplied, sc)
    /\ UNCHANGED <<sessSent, topicVars, callVars, egress, pushCall, panicked, fanned, brokerVars, wapiVars>>

\* CloseSession, first statement: unsubscribeAll sends CLEAR to the topic manager.
\* The caller holds the duct, so its OpenSession has returned.
CloseSessionClear(d) ==
    /\ ~panicked
    /\ ducts[d].closing = 0
    /\ ducts[d].opened
    /\ NumCalls < callBudget
    /\ Len(topicsCmdDuct) < CMD_DUCT_BUFFER_MAX
    /\ topicsCmdDuct' = Append(topicsCmdDuct,
           [cmd |-> "CLEAR", uri |-> "", userId |-> ducts[d].userId,
            sessionId |-> ducts[d].sessionId, signalDone |-> FALSE, id |-> nTopicCmds + 1])
    /\ nTopicCmds' = nTopicCmds + 1
    /\ ducts' = [ducts EXCEPT ![d].closing = 1, ![d].clear = nTopicCmds + 1]
    /\ UNCHANGED <<sessionVars, topicsTopics, topicsSubscriptions, topicList, sweep,
                   nPayloads, returned, lastCall, dropped, owed, pushed, egress, pushCall, panicked,
                   fanned, brokerVars, wapiVars>>

\* CloseSession, second statement: send OFFLINE carrying the duct.
CloseSessionOffline(d) ==
    LET sc == [cmd |-> "OFFLINE", userId |-> ducts[d].userId,
               sessionId |-> ducts[d].sessionId, payloadDuct |-> d, signalDone |-> FALSE]
    IN  /\ ~panicked
        /\ ducts[d].closing = 1
        /\ Len(sessionsCmdDuct) < CMD_DUCT_BUFFER_MAX
        /\ sessionsCmdDuct' = Append(sessionsCmdDuct, sc)
        /\ sessSent' = Append(sessSent, sc)
        /\ ducts' = [ducts EXCEPT ![d].closing = 2]
        /\ UNCHANGED <<sessionsUsers, sessApplied, topicVars, callVars, egress, pushCall,
                       panicked, fanned, brokerVars, wapiVars>>

\* CloseSession, third statement: close(duct), and return.
CloseSessionClose(d) ==
    /\ ~panicked
    /\ ducts[d].closing = 2
    /\ ducts' = [ducts EXCEPT ![d].closing = 3, ![d].closed = TRUE]
    /\ UNCHANGED <<sessionVars, topicVars, callVars, egress, pushCall, panicked, fanned, brokerVars, wapiVars>>

----------------------------------------------------------------------------
\* Topic registry.

\* startTopic: a Topic with no subscriber and empty ducts; its Loop is running.
\* forwarded and applied are history: the commands sent to this topic's cmdDuct
\* and the commands its Loop has handled, in order.
startTopic(uri) ==
    [uri |-> uri, subscribers |-> EmptyMap, payloadDuct |-> <<>>, cmdDuct |-> <<>>,
     stopped |-> FALSE, fan |-> <<>>, forwarded |-> <<>>, applied |-> <<>>,
     taken |-> 0]

StopCmd == [cmd |-> "STOP", uri |-> "", userId |-> "", sessionId |-> "",
            signalDone |-> FALSE, id |-> 0]

\* topic.cmdDuct <- tc
Forward(list, t, tc) ==
    [list EXCEPT ![t].cmdDuct = Append(@, tc), ![t].forwarded = Append(@, tc)]

\* A send to the topic's cmdDuct would block: its buffer is full.
CmdDuctFull(list, t) == Len(list[t].cmdDuct) - list[t].taken >= CMD_DUCT_BUFFER_MAX

\* The session of the key is registered, is the only one ever opened for the
\* key, and its CloseSession has not begun.
IsOpenSession(userId, sessionId) ==
    LET d == lookupSession(userId, sessionId)
    IN  /\ d # 0
        /\ ducts[d].closing = 0
        /\ Cardinality({e \in DOMAIN ducts : /\ ducts[e].userId = userId
                                             /\ ducts[e].sessionId = sessionId}) = 1

\* History of the Subscribe/Unsubscribe calls of a session for a uri: the last
\* call, whether every call so far was made by an open session, and whether
\* the last call was made after a topic of the uri had been removed from the
\* directory, with no topic registered under the uri.
NoteCall(op, uri, userId, sessionId) ==
    LET k == <<SessionKeyOf(userId, sessionId), uri>>
        before == IF k \in DOMAIN lastCall THEN lastCall[k].open ELSE TRUE
    IN  MapPut(lastCall, k, [op |-> op, id |-> nTopicCmds + 1,
                             open |-> before /\ IsOpenSession(userId, sessionId),
                             removed |-> /\ uri \notin DOMAIN topicsTopics
                                         /\ \E t \in DOMAIN topicList :
                                                topicList[t].uri = uri])

\* Subscribe: send SUBSCRIBE to the topic manager; with wait, block on cmd.wg
\* until a topic worker has handled the command.
Subscribe(uri, userId, sessionId, wait) ==
    /\ ~panicked
    /\ NumCalls < callBudget
    /\ Len(topicsCmdDuct) < CMD_DUCT_BUFFER_MAX
    /\ topicsCmdDuct' = Append(topicsCmdDuct,
           [cmd |-> "SUBSCRIBE", uri |-> uri, userId |-> userId, sessionId |-> sessionId,
            signalDone |-> wait, id |-> nTopicCmds + 1])
    /\ nTopicCmds' = nTopicCmds + 1
    /\ returned' = IF wait THEN returned ELSE returned \cup {nTopicCmds + 1}
    /\ lastCall' = NoteCall("Subscribe", uri, userId, sessionId)
    /\ UNCHANGED <<sessionVars, topicsTopics, topicsSubscriptions, topicList, sweep,
                   nPayloads, dropped, owed, pushed, ducts, egress, pushCall, panicked,
                   fanned, brokerVars, wapiVars>>

\* Unsubscribe: send UNSUBSCRIBE to the topic manager.
Unsubscribe(uri, userId, sessionId) ==
    /\ ~panicked
    /\ NumCalls < callBudget
    /\ Len(topicsCmdDuct) < CMD_DUCT_BUFFER_MAX
    /\ topicsCmdDuct' = Append(topicsCmdDuct,
           [cmd |-> "UNSUBSCRIBE", uri |-> uri, userId |-> userId,
            sessionId |-> sessionId, signalDone |-> FALSE, id |-> nTopicCmds + 1])
    /\ nTopicCmds' = nTopicCmds + 1
    /\ lastCall' = NoteCall("Unsubscribe", uri, userId, sessionId)
    /\ UNCHANGED <<sessionVars, topicsTopics, topicsSubscriptions, topicList, sweep,
                   nPayloads, returned, dropped, owed, pushed, ducts, egress, pushCall,
                   panicked, fanned, brokerVars, wapiVars>>

\* topics.subscriptions[skey], the empty set when the key has no entry.
SubscriptionsOf(subs, skey) == IF skey \in DOMAIN subs THEN subs[skey] ELSE {}

\* topics.subscriptions[skey][tc.uri] = true
IndexSubscribe(subs, skey, uri) == MapPut(subs, skey, SubscriptionsOf(subs, skey) \cup {uri})

\* delete(topics.subscriptions[skey], tc.uri), and the entry with it when empty.
IndexUnsubscribe(subs, skey, uri) ==
    IF skey \notin DOMAIN subs THEN subs
    ELSE IF subs[skey] \ {uri} = {} THEN MapDel(subs, skey)
         ELSE MapPut(subs, skey, subs[skey] \ {uri})

\* The mutation of the directory insert: the started topic is not recorded.
DirectoryAddNothing(dir, uri, t) == dir

\* topics.topics[tc.uri] = topic (the entry is unchanged when it existed).
DirectoryAdd(dir, uri, t) == MapPut(dir, uri, t)

\* topicMgrLoop is at its select: not inside the cleanup sweep.
TopicMgrAtSelect == ~sweep.active

\* topicMgrLoop, case SUBSCRIBE: start the topic if it does not exist, forward
\* the command to it, record the uri in the subscription index.
TopicMgrSubscribe ==
    /\ ~panicked
    /\ TopicMgrAtSelect
    /\ topicsCmdDuct # <<>>
    /\ Dequeue(topicsCmdDuct).cmd.cmd = "SUBSCRIBE"
    /\ LET tc == Dequeue(topicsCmdDuct).cmd
           skey == SessionKeyOf(tc.userId, tc.sessionId)
           exists == tc.uri \in DOMAIN topicsTopics
           t == IF exists THEN topicsTopics[tc.uri] ELSE Len(topicList) + 1
           list == IF exists THEN topicList ELSE Append(topicList, startTopic(tc.uri))
       IN  IF list[t].stopped
           THEN /\ panicked' = TRUE
                /\ UNCHANGED <<topicVars>>
           ELSE /\ ~CmdDuctFull(list, t)
                /\ topicsCmdDuct' = Dequeue(topicsCmdDuct).rest
                /\ topicsTopics' = DirectoryAdd(topicsTopics, tc.uri, t)
                /\ topicList' = Forward(list, t, tc)
                /\ topicsSubscriptions' = IndexSubscribe(topicsSubscriptions, skey, tc.uri)
                /\ UNCHANGED <<sweep, panicked>>
    /\ UNCHANGED <<sessionVars, ducts, callVars, egress, pushCall, fanned, brokerVars, wapiVars>>

\* topicMgrLoop, case UNSUBSCRIBE: forward to the topic if it exists, drop the
\* uri from the subscription index.
TopicMgrUnsubscribe ==
    /\ ~panicked
    /\ TopicMgrAtSelect
    /\ topicsCmdDuct # <<>>
    /\ Dequeue(topicsCmdDuct).cmd.cmd = "UNSUBSCRIBE"
    /\ LET tc == Dequeue(topicsCmdDuct).cmd
           skey == SessionKeyOf(tc.userId, tc.sessionId)
           exists == tc.uri \in DOMAIN topicsTopics
       IN  IF exists /\ topicList[topicsTopics[tc.uri]].stopped
           THEN /\ panicked' = TRUE
                /\ UNCHANGED <<topicVars>>
           ELSE /\ exists => ~CmdDuctFull(topicList, topicsTopics[tc.uri])
                /\ topicsCmdDuct' = Dequeue(topicsCmdDuct).rest
                /\ topicList' = IF exists THEN Forward(topicList, topicsTopics[tc.uri], tc)
                                ELSE topicList
                /\ topicsSubscriptions' = IndexUnsubscribe(topicsSubscriptions, skey, tc.uri)
                /\ UNCHANGED <<topicsTopics, sweep, panicked>>
    /\ UNCHANGED <<sessionVars, ducts, callVars, egress, pushCall, fanned, brokerVars, wapiVars>>

\* The mutation of CLEAR: the command is forwarded to no topic.
ClearTargetsNone(subs, dir, skey) == {}

\* for uri := range topics.subscriptions[skey]: the topics of the directory
\* the index records for the session.
ClearTargets(subs, dir, skey) ==
    {dir[uri] : uri \in SubscriptionsOf(subs, skey) \cap DOMAIN dir}

\* topicMgrLoop, case CLEAR: forward the command to every existing topic the
\* index records for the session, and delete the session's index entry.
TopicMgrClear ==
    /\ ~panicked
    /\ TopicMgrAtSelect
    /\ topicsCmdDuct # <<>>
    /\ Dequeue(topicsCmdDuct).cmd.cmd = "CLEAR"
    /\ LET tc == Dequeue(topicsCmdDuct).cmd
           skey == SessionKeyOf(tc.userId, tc.sessionId)
           targets == ClearTargets(topicsSubscriptions, topicsTopics, skey)
       IN  IF \E t \in targets : topicList[t].stopped
           THEN /\ panicked' = TRUE
                /\ UNCHANGED <<topicVars>>
           ELSE /\ \A t \in targets : ~CmdDuctFull(topicList, t)
                /\ topicsCmdDuct' = Dequeue(topicsCmdDuct).rest
                /\ topicList' = [t \in DOMAIN topicList |->
                                    IF t \in targets THEN Forward(topicList, t, tc)[t]
                                    ELSE topicList[t]]
                /\ topicsSubscriptions' = MapDel(topicsSubscriptions, skey)
                /\ UNCHANGED <<topicsTopics, sweep, panicked>>
    /\ UNCHANGED <<sessionVars, ducts, callVars, egress, pushCall, fanned, brokerVars, wapiVars>>

\* The cleanup sweep holds topic t's read lock: it is between the STOP it sent
\* to t and the delete of t's directory entry.
SweepHoldsTopic(t) ==
    \/ /\ sweep.cur # ""
       /\ sweep.cur \in DOMAIN topicsTopics
       /\ topicsTopics[sweep.cur] = t
    \/ /\ sweep.locked # ""
       /\ sweep.locked \in DOMAIN topicsTopics
       /\ topicsTopics[sweep.locked] = t

\* case <-cleanupTicker.C: take topics.Lock() and range over the directory.
\* (A sweep of an empty directory changes nothing and is left out.)
SweepBegin ==
    /\ ~panicked
    /\ TopicMgrAtSelect
    /\ DOMAIN topicsTopics # {}
    /\ sweep' = [active |-> TRUE, todo |-> DOMAIN topicsTopics, cur |-> "", locked |-> ""]
    /\ UNCHANGED <<sessionVars, topicsTopics, topicsSubscriptions, topicsCmdDuct,
                   topicList, ducts, callVars, egress, pushCall, panicked, fanned, brokerVars, wapiVars>>

\* One iteration of the range, up to the send: under topic.RLock(), a topic
\* with no subscriber is sent STOP; a topic with subscribers is passed over.
SweepVisit(uri) ==
    /\ ~panicked
    /\ sweep.active
    /\ sweep.cur = ""
    /\ uri \in sweep.todo
    /\ LET t == topicsTopics[uri]
       IN  IF DOMAIN topicList[t].subscribers # {}
           THEN /\ sweep' = [sweep EXCEPT !.todo = @ \ {uri}, !.locked = ""]
                /\ UNCHANGED <<topicList, panicked>>
           ELSE IF topicList[t].stopped
           THEN /\ panicked' = TRUE
                /\ UNCHANGED <<topicList, sweep>>
           ELSE /\ ~CmdDuctFull(topicList, t)
                /\ topicList' = Forward(topicList, t, StopCmd)
                /\ sweep' = [sweep EXCEPT !.cur = uri, !.locked = ""]
                /\ UNCHANGED panicked
    /\ UNCHANGED <<sessionVars, topicsTopics, topicsSubscriptions, topicsCmdDuct,
                   ducts, callVars, egress, pushCall, fanned, brokerVars, wapiVars>>

\* The mutation of the delete: the stopped topic stays in the directory.
DirectoryKeep(dir, uri) == dir

\* delete(topics.topics, uri)
DirectoryDelete(dir, uri) == MapDel(dir, uri)

\* The rest of the iteration: delete the stopped topic from the directory and
\* release its read lock.
SweepDelete ==
    /\ ~panicked
    /\ sweep.active
    /\ sweep.cur # ""
    /\ topicsTopics' = DirectoryDelete(topicsTopics, sweep.cur)
    /\ sweep' = [sweep EXCEPT !.cur = "", !.todo = @ \ {sweep.cur}]
    /\ UNCHANGED <<sessionVars, topicsSubscriptions, topicsCmdDuct, topicList,
                   ducts, callVars, egress, pushCall, panicked, fanned, brokerVars, wapiVars>>

\* The range is over: topics.Unlock(), back to the select.
SweepEnd ==
    /\ ~panicked
    /\ sweep.active
    /\ sweep.cur = ""
    /\ sweep.todo = {}
    /\ sweep' = [sweep EXCEPT !.active = FALSE]
    /\ UNCHANGED <<sessionVars, topicsTopics, topicsSubscriptions, topicsCmdDuct,
                   topicList, ducts, callVars, egress, pushCall, panicked, fanned, brokerVars, wapiVars>>

----------------------------------------------------------------------------
\* Topic worker.

\* The mutation of the worker: it goes on after STOP.
WorkerAtSelectAfterStop(t) == topicList[t].fan = <<>>

\* Topic.Loop is at its select: it has not returned and is not inside a fan-out.
WorkerAtSelect(t) == ~topicList[t].stopped /\ topicList[t].fan = <<>>

\* case SUBSCRIBE: add the subscriber if lookupSession found the session.
WorkerSubscribe(subscribers, skey, s) ==
    IF s # 0 THEN MapPut(subscribers, skey, s) ELSE subscribers

\* Topic.Loop, case tc := <-t.cmdDuct.
WorkerCmd(t) ==
    /\ ~panicked
    /\ WorkerAtSelect(t)
    /\ topicList[t].cmdDuct # <<>>
    /\ LET tc == Dequeue(topicList[t].cmdDuct).cmd
           rest == Dequeue(topicList[t].cmdDuct).rest
           skey == SessionKeyOf(tc.userId, tc.sessionId)
           subs == topicList[t].subscribers
       IN  /\ tc.cmd # "STOP" => ~SweepHoldsTopic(t)
           /\ topicList' = [topicList EXCEPT
                  ![t].cmdDuct = rest,
                  ![t].taken = 0,
                  ![t].applied = Append(@, tc),
                  ![t].subscribers =
                      IF tc.cmd = "SUBSCRIBE"
                      THEN WorkerSubscribe(subs, skey, lookupSession(tc.userId, tc.sessionId))
                      ELSE IF tc.cmd \in {"CLEAR", "UNSUBSCRIBE"} THEN MapDel(subs, skey)
                      ELSE subs,
                  ![t].stopped = (tc.cmd = "STOP")]
           /\ returned' = IF tc.cmd = "SUBSCRIBE" /\ tc.signalDone
                          THEN returned \cup {tc.id} ELSE returned
    /\ UNCHANGED <<sessionVars, topicsTopics, topicsSubscriptions, topicsCmdDuct, sweep,
                   nTopicCmds, nPayloads, lastCall, dropped, owed, pushed, ducts, egress,
                   pushCall, panicked, fanned, brokerVars, wapiVars>>

\* Topic.Loop, case payload := <-t.payloadDuct: take the read lock and start
\* the range over the subscribers.
WorkerPayload(t) ==
    /\ ~panicked
    /\ WorkerAtSelect(t)
    /\ topicList[t].payloadDuct # <<>>
    /\ LET payload == Head(topicList[t].payloadDuct)
           subs == topicList[t].subscribers
       IN  /\ topicList' = [topicList EXCEPT
                  ![t].payloadDuct = Tail(@),
                  ![t].fan = IF DOMAIN subs = {} THEN <<>>
                             ELSE <<[payload |-> payload, rem |-> DOMAIN subs]>>]
           /\ fanned' = MapPut(fanned, payload.Data, [topic |-> t, subscribers |-> subs])
    /\ UNCHANGED <<sessionVars, topicsTopics, topicsSubscriptions, topicsCmdDuct, sweep,
                   callVars, ducts, egress, pushCall, panicked, brokerVars, wapiVars>>

\* The mutation of the send: the payload overtakes the ones waiting in the
\* duct.
SendPayloadFront(list, d, payload) ==
    [list EXCEPT ![d].buf = <<payload>> \o @,
                 ![d].written = SubSeq(@, 1, Len(@) - Len(list[d].buf))
                                    \o <<payload.Data>>
                                    \o SubSeq(@, Len(@) - Len(list[d].buf) + 1, Len(@))]

\* s.payloadDuct <- payload
SendPayload(list, d, payload) ==
    [list EXCEPT ![d].buf = Append(@, payload), ![d].written = Append(@, payload.Data)]

\* One iteration of the range: s.payloadDuct <- payload for subscriber skey.
WorkerSend(t, skey) ==
    /\ ~panicked
    /\ ~topicList[t].stopped
    /\ topicList[t].fan # <<>>
    /\ skey \in topicList[t].fan[1].rem
    /\ LET d == topicList[t].subscribers[skey]
           left == topicList[t].fan[1].rem \ {skey}
       IN  IF ducts[d].closed
           THEN /\ panicked' = TRUE
                /\ UNCHANGED <<ducts, topicList>>
           ELSE /\ Len(ducts[d].buf) < DATA_DUCT_BUFFER_MAX
                /\ ducts' = SendPayload(ducts, d, topicList[t].fan[1].payload)
                /\ topicList' = [topicList EXCEPT
                       ![t].fan = IF left = {} THEN <<>>
                                  ELSE <<[payload |-> topicList[t].fan[1].payload,
                                          rem |-> left]>>]
                /\ UNCHANGED panicked
    /\ UNCHANGED <<sessionVars, topicsTopics, topicsSubscriptions, topicsCmdDuct, sweep,
                   callVars, egress, pushCall, fanned, brokerVars, wapiVars>>

----------------------------------------------------------------------------
\* Producers and consumers.

\* The objects the callers pass, one per call: every other one is a removal
\* whose payload has no kind and no data, the others are the test's object.
ObjectKind(id) == IF id % 2 = 1 THEN "test" ELSE ""

ObjectOp(id) == IF id % 2 = 1 THEN "UPSERT" ELSE "REMOVE"

ObjectData(id) == IF id % 2 = 1 THEN "j/v1" ELSE ""

\* BuildPushPayload: a new Payload for the uri; Data stands for the pointer,
\* it tells the payloads of different calls apart, Json is the RawMessage the
\* field Data of the code holds.
BuildPushPayload(uri, id) ==
    [Uri |-> uri, Data |-> id, Kind |-> ObjectKind(id), Op |-> ObjectOp(id),
     Json |-> ObjectData(id)]

\* topic, ok := topics.topics[p.Uri]; 0 when there is none.
EgressTopic(dir, uri) == IF uri \in DOMAIN dir THEN dir[uri] ELSE 0

\* The key of the call history of duct d's session for the uri, and the
\* last call recorded under it.
CallKey(d, uri) == <<SessionKeyOf(ducts[d].userId, ducts[d].sessionId), uri>>

LastCallOf(d, uri) == lastCall[CallKey(d, uri)]

\* The holder of duct d may expect the payloads published to uri from now on:
\* its OpenSession has returned, it is the open session of its key, and its
\* last call for the uri is a Subscribe, made while open, that has returned.
Ready(d, uri) ==
    LET k == CallKey(d, uri)
    IN  /\ ducts[d].opened
        /\ IsOpenSession(ducts[d].userId, ducts[d].sessionId)
        /\ lookupSession(ducts[d].userId, ducts[d].sessionId) = d
        /\ k \in DOMAIN lastCall
        /\ lastCall[k].op = "Subscribe"
        /\ lastCall[k].open
        /\ lastCall[k].id \in returned

\* The record of a Publish or PushToUser call: obj is the object handed in
\* ("bad" when its BuildPushPayload returns an error), found is what the call
\* read under the read lock (the topic, or the number of the user's sessions),
\* built tells whether BuildPushPayload was invoked, ret is the error
\* returned ("pending" until the call returns).
NewCall(fn, obj, found, b, ret) ==
    [fn |-> fn, obj |-> obj, found |-> found, built |-> b, ret |-> ret]

\* return nil / return err of the call.
Return(id, ret) == [calls EXCEPT ![id].ret = ret]

\* processEgress up to RUnlock (CasMode): topic, ok := topics.topics[p.Uri]
\* under topics.RLock().  Without a topic the payload is dropped.
processEgress(p) ==
    LET t == EgressTopic(topicsTopics, p.Uri)
    IN  /\ ~sweep.active
        /\ egress' = IF t # 0 THEN egress \cup {[payload |-> p, topic |-> t]} ELSE egress
        /\ dropped' = IF t # 0 THEN dropped ELSE dropped \cup {p.Data}

\* doPublishToBroker: natsClient.econn.Publish(p.Kind, p); return nil.
doPublishToBroker(p) == broker' = Append(broker, p)

\* Publish of an object whose BuildPushPayload succeeds: with the broker
\* disabled processEgress delivers locally, otherwise the payload goes to
\* the broker and the call returns.
Publish(uri) ==
    LET p == BuildPushPayload(uri, nPayloads + 1)
        t == EgressTopic(topicsTopics, p.Uri)
    IN  /\ ~panicked
        /\ NumCalls < callBudget
        /\ nPayloads' = nPayloads + 1
        /\ IF DisableBroker
           THEN /\ processEgress(p)
                /\ owed' = MapPut(owed, p.Data,
                                   [uri |-> uri,
                                    subs |-> {<<d, LastCallOf(d, uri).id>> :
                                                 d \in {e \in DOMAIN ducts : Ready(e, uri)}}])
                /\ calls' = MapPut(calls, p.Data,
                                    NewCall("Publish", "ok", t, TRUE,
                                            IF t # 0 THEN "pending" ELSE "nil"))
                /\ UNCHANGED broker
           ELSE /\ doPublishToBroker(p)
                /\ calls' = MapPut(calls, p.Data, NewCall("Publish", "ok", 0, TRUE, "nil"))
                /\ UNCHANGED <<egress, dropped, owed>>
        /\ UNCHANGED <<sessionVars, topicVars, nTopicCmds, returned, lastCall, pushed,
                       ducts, pushCall, panicked, fanned, DisableBroker, callBudget, fromBroker,
                       wapiVars>>

\* Publish of an object whose BuildPushPayload fails: the error is returned.
PublishBuildError ==
    /\ ~panicked
    /\ NumCalls < callBudget
    /\ nPayloads' = nPayloads + 1
    /\ calls' = MapPut(calls, nPayloads + 1, NewCall("Publish", "bad", 0, TRUE, "error"))
    /\ UNCHANGED <<sessionVars, topicVars, nTopicCmds, returned, lastCall, dropped, owed,
                   pushed, ducts, egress, pushCall, panicked, fanned, DisableBroker,
                   callBudget, broker, fromBroker, wapiVars>>

\* The mutation of the broker's delivery: the payload is received and dropped
\* whether there is a topic or not.
processPayloadFromBrokerDropped(uri) ==
    LET p == BuildPushPayload(uri, nPayloads + 1)
    IN  /\ ~panicked
        /\ ~DisableBroker
        /\ NumCalls < callBudget
        /\ nPayloads' = nPayloads + 1
        /\ fromBroker' = fromBroker \cup {p}
        /\ dropped' = dropped \cup {p.Data}
        /\ UNCHANGED <<sessionVars, topicVars, nTopicCmds, returned, lastCall, owed, pushed,
                       ducts, egress, pushCall, panicked, fanned, DisableBroker, callBudget, broker,
                       calls, wapiVars>>

\* processPayloadFromBroker: the subscription made by SubscribeFromBroker
\* (none when the broker is disabled) delivers a payload for the uri, decoded
\* by the connection's encoder; processEgress(p).
processPayloadFromBroker(uri) ==
    LET p == BuildPushPayload(uri, nPayloads + 1)
    IN  /\ ~panicked
        /\ ~DisableBroker
        /\ NumCalls < callBudget
        /\ nPayloads' = nPayloads + 1
        /\ fromBroker' = fromBroker \cup {p}
        /\ processEgress(p)
        /\ UNCHANGED <<sessionVars, topicVars, nTopicCmds, returned, lastCall, owed, pushed,
                       ducts, pushCall, panicked, fanned, DisableBroker, callBudget, broker, calls,
                       wapiVars>>

\* processEgress, after the read lock is released: topic.payloadDuct <- p;
\* return nil.
PublishSend(e) ==
    /\ ~panicked
    /\ e \in egress
    /\ IF topicList[e.topic].stopped
       THEN /\ panicked' = TRUE
            /\ UNCHANGED <<topicList, egress, calls>>
       ELSE /\ Len(topicList[e.topic].payloadDuct) < DATA_DUCT_BUFFER_MAX
            /\ topicList' = [topicList EXCEPT ![e.topic].payloadDuct = Append(@, e.payload)]
            /\ egress' = egress \ {e}
            /\ calls' = IF e.payload.Data \in DOMAIN calls
                        THEN Return(e.payload.Data, "nil") ELSE calls
            /\ UNCHANGED panicked
    /\ UNCHANGED <<sessionVars, topicsTopics, topicsSubscriptions, topicsCmdDuct, sweep,
                   callVars, ducts, pushCall, fanned, DisableBroker, callBudget, broker, fromBroker,
                   wapiVars>>

\* sessions.users[userId], empty when the user has no entry.
SessionsOf(userId) ==
    IF userId \in DOMAIN sessionsUsers THEN sessionsUsers[userId] ELSE EmptyMap

\* PushToUser up to the range, for an object whose BuildPushPayload succeeds:
\* under sessions.RLock(), build the payload only if the user has a session;
\* without one the call returns err, which is nil.
PushToUser(userId) ==
    LET online == DOMAIN SessionsOf(userId) # {}
    IN  /\ ~panicked
        /\ NumCalls < callBudget
        /\ pushCall = <<>>
        /\ nPayloads' = nPayloads + 1
        /\ pushCall' = IF online
                       THEN <<[payload |-> BuildPushPayload("", nPayloads + 1),
                               userId |-> userId, rem |-> DOMAIN SessionsOf(userId)]>>
                       ELSE <<>>
        /\ pushed' = IF online
                      THEN MapPut(pushed, userId,
                                  Append(IF userId \in DOMAIN pushed THEN pushed[userId]
                                         ELSE <<>>, nPayloads + 1))
                      ELSE pushed
        /\ calls' = MapPut(calls, nPayloads + 1,
                           NewCall("PushToUser", "ok",
                                   Cardinality(DOMAIN SessionsOf(userId)),
                                   online, IF online THEN "pending" ELSE "nil"))
        /\ UNCHANGED <<sessionVars, topicVars, nTopicCmds, returned, lastCall, dropped,
                       owed, ducts, egress, panicked, fanned, DisableBroker, callBudget, broker,
                       fromBroker, wapiVars>>

\* The mutation of PushToUser: the payload is built before the sessions are
\* looked at, so that a failing object makes the call fail for any user.
PushToUserBuildFirst(userId) ==
    /\ ~panicked
    /\ NumCalls < callBudget
    /\ pushCall = <<>>
    /\ nPayloads' = nPayloads + 1
    /\ calls' = MapPut(calls, nPayloads + 1,
                       NewCall("PushToUser", "bad",
                               Cardinality(DOMAIN SessionsOf(userId)), TRUE, "error"))
    /\ UNCHANGED <<sessionVars, topicVars, nTopicCmds, returned, lastCall, dropped,
                   owed, pushed, ducts, egress, pushCall, panicked, fanned,
                   DisableBroker, callBudget, broker, fromBroker, wapiVars>>

\* PushToUser for an object whose BuildPushPayload fails: the payload is
\* built only if the user has a session, the range is skipped and err is
\* returned.
PushToUserBuildError(userId) ==
    LET online == DOMAIN SessionsOf(userId) # {}
    IN  /\ ~panicked
        /\ NumCalls < callBudget
        /\ pushCall = <<>>
        /\ nPayloads' = nPayloads + 1
        /\ calls' = MapPut(calls, nPayloads + 1,
                           NewCall("PushToUser", "bad",
                                   Cardinality(DOMAIN SessionsOf(userId)),
                                   online, IF online THEN "error" ELSE "nil"))
        /\ UNCHANGED <<sessionVars, topicVars, nTopicCmds, returned, lastCall, dropped,
                       owed, pushed, ducts, egress, pushCall, panicked, fanned,
                       DisableBroker, callBudget, broker, fromBroker, wapiVars>>

\* PushToUser, one iteration of the range: s.payloadDuct <- p; after the last
\* one the read lock is released and the call returns nil.
PushSend(skey) ==
    /\ ~panicked
    /\ pushCall # <<>>
    /\ skey \in pushCall[1].rem
    /\ LET d == SessionsOf(pushCall[1].userId)[skey]
           left == pushCall[1].rem \ {skey}
       IN  IF ducts[d].closed
           THEN /\ panicked' = TRUE
                /\ UNCHANGED <<ducts, pushCall, calls>>
           ELSE /\ Len(ducts[d].buf) < DATA_DUCT_BUFFER_MAX
                /\ ducts' = SendPayload(ducts, d, pushCall[1].payload)
                /\ pushCall' = IF left = {} THEN <<>>
                               ELSE <<[pushCall[1] EXCEPT !.rem = left]>>
                /\ calls' = IF left = {} THEN Return(pushCall[1].payload.Data, "nil")
                            ELSE calls
                /\ UNCHANGED panicked
    /\ UNCHANGED <<sessionVars, topicVars, callVars, egress, fanned, DisableBroker, callBudget, broker,
                   fromBroker, wapiVars>>

\* The holder of a duct receives the oldest payload from it (<-duct).
Consume(d) ==
    /\ ~panicked
    /\ ducts[d].buf # <<>>
    /\ ducts' = [ducts EXCEPT ![d].buf = Tail(@)]
    /\ UNCHANGED <<sessionVars, topicVars, callVars, egress, pushCall, panicked, fanned, brokerVars, wapiVars>>

\* What the holder of duct d has received so far, in order.
Observed(d) == SubSeq(ducts[d].written, 1, Len(ducts[d].written) - Len(ducts[d].buf))

----------------------------------------------------------------------------
\* Connection protocol (package wapi): the wire and its JSON.

\* Ticks of the clock in one second (time.Second, 1e9 in package time),
\* scaled down.
Second == 13

\* Bounds of the connection model: the messages an arbitrary peer sends, the
\* RestExec calls, and the steps the clock makes.
MaxMsgs == 2
MaxRequests == 2
MaxTicks == 4

\* const ( WriteWait, PingInterval, PingTimeout, ResponseTimeout )
PingInterval == 20 * Second

PingTimeout == 3 * PingInterval

ResponseTimeout == 5 * Second

\* The values handlers answer with: json.Marshal encodes Values and fails on
\* Unencodable (a channel, a function).
Values == {"v1", "v2"}

Unencodable == {"chan"}

\* The request ids, methods and uris of the callers: "/a" has a handler,
\* "/none" has none, "%" is refused by url.ParseRequestURI.
Rids == {"r1", "r2"}

RoutedUris == {"/a"}

InvalidUris == {"%"}

RequestUris == {"/a", "/none", "%"}

\* json.Marshal(v): the text, or an error.
JsonMarshal(v) ==
    IF v \in Unencodable THEN [err |-> TRUE, text |-> ""]
    ELSE [err |-> FALSE, text |-> "j/" \o v]

\* json.Unmarshal(text, &v): the value the text encodes, or an error.
JsonUnmarshal(text) ==
    IF \E v \in Values : JsonMarshal(v).text = text
    THEN [err |-> FALSE, v |-> CHOOSE v \in Values : JsonMarshal(v).text = text]
    ELSE [err |-> TRUE, v |-> ""]

\* util.Err.MarshalJSON()
ErrJson(err) == "e/" \o err

\* The zero Envelope (Timestamp is left out: nothing reads it).
ZeroEnvelope ==
    [Rid |-> "", Method |-> "", Uri |-> "", Push |-> FALSE, Data |-> "", Error |-> ""]

\* The fields WriteJSON puts on the wire: rid, data and error are omitempty.
WrittenFields(e) == {"Method", "Uri", "Push"} \cup {k \in {"Rid", "Data", "Error"} : e[k] # ""}

\* WriteJSON(&envelope): a JSON message holding the written fields.
EncodeEnvelope(e) == [type |-> "json", f |-> [k \in WrittenFields(e) |-> e[k]]]

\* ReadJSON(&envelope): the fields of the message overwrite the envelope's,
\* the fields the message lacks keep the value they had.
DecodeEnvelope(e, m) == [k \in DOMAIN e |-> IF k \in DOMAIN m.f THEN m.f[k] ELSE e[k]]

\* A message that is not the JSON of an Envelope.
Garbage == [type |-> "garbage", f |-> EmptyMap]

\* websocket.PingMessage and websocket.PongMessage
PingMessage == [type |-> "ping", f |-> EmptyMap]

PongMessage == [type |-> "pong", f |-> EmptyMap]

\* upgrader.Upgrade / Dialer.Dial: an open websocket with nothing in flight.
\* sent counts the messages of the arbitrary peer.
NewWire ==
    [toServer |-> <<>>, toClient |-> <<>>, serverClosed |-> FALSE,
     clientClosed |-> FALSE, sent |-> 0, deaf |-> FALSE]

\* Nothing is delivered once either end has closed the websocket.
WireClosed(w) == w.serverClosed \/ w.clientClosed

\* Whether a write returns an error: it does when the writer's end is closed,
\* it may or may not when only the peer has closed, it does not otherwise.
WriteOutcomes(own, peer) == IF own THEN {TRUE} ELSE IF peer THEN BOOLEAN ELSE {FALSE}

\* c.ws.WriteJSON / WriteMessage on the server's end.
ServerWrite(w, m) == IF WireClosed(w) THEN w ELSE [w EXCEPT !.toClient = Append(@, m)]

\* c.ws.WriteJSON / WriteMessage on the client's end.
ClientWrite(w, m) == IF WireClosed(w) THEN w ELSE [w EXCEPT !.toServer = Append(@, m)]

----------------------------------------------------------------------------
\* Connection protocol, server side: Conn.apiLoop.

\* NewConn and StartLoop: apiLoop is about to read, pushLoop is about to open
\* its session.  exit, served and closes are history: why apiLoop ended, the
\* request id each response answers with the id it carries, and the
\* CloseSession calls of pushLoop.
\* A read deadline of one ping period.
ReadDeadlineShort(t) == t + PingInterval

\* c.ws.SetReadDeadline(time.Now().Add(PingTimeout)), at the top of apiLoop's
\* loop and in the pong handler.
ReadDeadline(t) == t + PingTimeout

NewConn ==
    [envelope |-> ZeroEnvelope, apiLoop |-> "read", exit |-> "", served |-> <<>>,
     pushLoop |-> "idle", duct |-> 0, ticker |-> "none", closes |-> 0,
     pe |-> [ZeroEnvelope EXCEPT !.Push = TRUE], taken |-> <<>>, pushes |-> <<>>,
     deadline |-> ReadDeadline(0), nextTick |-> 0,
     apiWrite |-> FALSE, pushWrite |-> FALSE]

\* wsReturnOk(v): the envelope after encoding v.
wsReturnOk(e, v) ==
    IF JsonMarshal(v).err
    THEN [e EXCEPT !.Data = "", !.Error = ErrJson("ErrInternal")]
    ELSE [e EXCEPT !.Data = JsonMarshal(v).text, !.Error = ""]

\* wsReturnError(err): the envelope after encoding err.
wsReturnError(e, err) == [e EXCEPT !.Error = ErrJson(err), !.Data = ""]

\* What a handler does with the request: wsReturnOk(v) or wsReturnError(v).
HandlerReplies ==
    {[ok |-> TRUE, v |-> v] : v \in Values \cup Unencodable}
        \cup {[ok |-> FALSE, v |-> "ErrInvalidInput"]}

\* The id the request message carries, "" when it has none.
RequestRid(m) == IF "Rid" \in DOMAIN m.f THEN m.f["Rid"] ELSE ""

\* url.ParseRequestURI(uri) returns no error.
ParseRequestURI(uri) == uri \notin InvalidUris

\* A lookup that finds a handler for every path.
LookupAny(method, path) == TRUE

\* router.mux.Lookup(method, path) returns a handler.
Lookup(method, path) == method = "GET" /\ path \in RoutedUris

\* apiLoop, one request: c.envelope.Data = nil, ReadJSON(&c.envelope), then the
\* uri is parsed, the handler looked up and run; the handler, or apiLoop when
\* there is none, writes the response from c.envelope.
ApiRequest(reply) ==
    /\ ~panicked
    /\ conn.apiLoop = "read"
    /\ ~wire.serverClosed
    /\ wire.toServer # <<>>
    /\ Head(wire.toServer).type = "json"
    /\ LET m == Head(wire.toServer)
           read == DecodeEnvelope([conn.envelope EXCEPT !.Data = ""], m)
           routed == ParseRequestURI(read.Uri) /\ Lookup(read.Method, read.Uri)
           out == IF ~routed THEN wsReturnError(read, "ErrInvalidMethod")
                  ELSE IF reply.ok THEN wsReturnOk(read, reply.v)
                  ELSE wsReturnError(read, reply.v)
       IN  /\ wire' = ServerWrite([wire EXCEPT !.toServer = Tail(@)], EncodeEnvelope(out))
           /\ conn' = [conn EXCEPT
                  !.envelope = out,
                  !.deadline = ReadDeadline(now),
                  !.apiWrite = FALSE,
                  !.served = Append(@, [req |-> RequestRid(m), rid |-> out.Rid,
                                        ok |-> routed /\ reply.ok,
                                        v |-> IF routed THEN reply.v ELSE ""])]
    /\ UNCHANGED <<sessionVars, topicVars, callVars, ducts, egress, pushCall, panicked,
                   fanned, brokerVars, client, restExec, now>>

\* apiLoop ends: the deferred c.ws.Close() runs.
ApiExit(cause) ==
    /\ conn' = [conn EXCEPT !.apiLoop = "exited", !.exit = cause]
    /\ UNCHANGED <<sessionVars, topicVars, callVars, ducts, egress, pushCall, panicked,
                   fanned, brokerVars, client, restExec, now>>

\* apiLoop, ReadJSON fails on a message that does not decode: one error
\* envelope is written, then break.
ApiDecodeError ==
    /\ ~panicked
    /\ conn.apiLoop = "read"
    /\ ~wire.serverClosed
    /\ wire.toServer # <<>>
    /\ Head(wire.toServer).type = "garbage"
    /\ wire' = [ServerWrite([wire EXCEPT !.toServer = Tail(@)],
                            EncodeEnvelope(wsReturnError([conn.envelope EXCEPT !.Data = ""],
                                                         "ErrJsonDecode")))
                   EXCEPT !.serverClosed = TRUE]
    /\ ApiExit("decode")

\* apiLoop, ReadJSON returns io.EOF: the client closed the connection.
ApiEof ==
    /\ ~panicked
    /\ conn.apiLoop = "read"
    /\ ~wire.serverClosed
    /\ wire.toServer = <<>>
    /\ wire.clientClosed
    /\ wire' = [wire EXCEPT !.serverClosed = TRUE]
    /\ ApiExit("eof")

\* apiLoop, ReadJSON times out: nothing came from the client for PingTimeout.
ApiTimeout ==
    /\ ~panicked
    /\ conn.apiLoop = "read"
    /\ ~wire.serverClosed
    /\ wire.toServer = <<>>
    /\ ~wire.clientClosed
    /\ wire' = [wire EXCEPT !.serverClosed = TRUE]
    /\ ApiExit("timeout")

\* An arbitrary client writes a request: any id or none, any uri, or a message
\* that is no JSON.
RequestMsgs ==
    {Garbage} \cup
    {EncodeEnvelope([ZeroEnvelope EXCEPT !.Rid = rid, !.Method = "GET", !.Uri = uri]) :
        rid \in Rids \cup {""}, uri \in RequestUris}

PeerRequest(m) ==
    /\ ~panicked
    /\ ~wire.deaf
    /\ wire.sent < MaxMsgs
    /\ ~WireClosed(wire)
    /\ wire' = [ClientWrite(wire, m) EXCEPT !.sent = @ + 1]
    /\ UNCHANGED <<sessionVars, topicVars, callVars, ducts, egress, pushCall, panicked,
                   fanned, brokerVars, conn, client, restExec, now>>

\* The client closes the connection.
PeerClose ==
    /\ ~panicked
    /\ ~wire.clientClosed
    /\ wire' = [wire EXCEPT !.clientClosed = TRUE]
    /\ UNCHANGED <<sessionVars, topicVars, callVars, ducts, egress, pushCall, panicked,
                   fanned, brokerVars, conn, client, restExec, now>>

\* apiLoop, ReadJSON fails because pushLoop closed the websocket: neither
\* io.EOF nor a timeout, so wsReturnError is tried (its write fails), then break.
ApiClosed ==
    /\ ~panicked
    /\ conn.apiLoop = "read"
    /\ wire.serverClosed
    /\ UNCHANGED wire
    /\ ApiExit("closed")

\* apiLoop, ReadJSON meets a pong: the pong handler refreshes the read
\* deadline and the read goes on.
ApiPong ==
    /\ ~panicked
    /\ conn.apiLoop = "read"
    /\ ~wire.serverClosed
    /\ wire.toServer # <<>>
    /\ Head(wire.toServer).type = "pong"
    /\ wire' = [wire EXCEPT !.toServer = Tail(@)]
    /\ conn' = [conn EXCEPT !.deadline = ReadDeadline(now)]
    /\ UNCHANGED <<engineVars, client, restExec, now>>

----------------------------------------------------------------------------
\* Connection protocol, server side: Conn.pushLoop.

\* The user and session of the connection (X-UserId, X-SessionId).
ConnUserId == "u1"

ConnSessionId == "a"

\* pushLoop, first statement: push.OpenSession(userId, sessionId, true).  The
\* connection's duct is the first one.
PushLoopOpen ==
    /\ conn.pushLoop = "idle"
    /\ ducts = <<>>
    /\ OpenSession(ConnUserId, ConnSessionId, TRUE)

\* pushLoop: OpenSession has returned; time.NewTicker(PingInterval).
PushLoopOpened ==
    /\ ~panicked
    /\ conn.pushLoop = "idle"
    /\ ducts # <<>>
    /\ ducts[1].opened
    /\ conn' = [conn EXCEPT !.pushLoop = "loop", !.duct = 1, !.ticker = "running",
                            !.nextTick = now + PingInterval]
    /\ UNCHANGED <<engineVars, wire, client, restExec, now>>

\* pushLoop returns from its loop: the deferred function stops the ticker and
\* calls push.CloseSession(userId, sessionId, duct).
PushLoopReturn(c) ==
    [c EXCEPT !.pushLoop = "closing", !.ticker = "stopped", !.closes = @ + 1,
              !.pushWrite = FALSE]

\* Whether a write of pushLoop returns an error: as any write, and also when
\* the client has stopped reading and the write deadline (WriteWait) passes.
PushWriteOutcomes ==
    IF Len(wire.toClient) >= MaxMsgs THEN {TRUE}
    ELSE WriteOutcomes(wire.serverClosed, wire.clientClosed)

\* A copy that leaves a field of pe alone when the payload's is empty.
PushEnvelopeKeep(pe, payload) ==
    [pe EXCEPT !.Rid = IF payload.Kind = "" THEN @ ELSE payload.Kind,
               !.Method = payload.Op,
               !.Uri = IF payload.Uri = "" THEN @ ELSE payload.Uri,
               !.Data = IF payload.Json = "" THEN @ ELSE payload.Json]

\* pushLoop's pe after the four assignments from a payload: pe is declared
\* once, before the loop, and Rid, Method, Uri and Data are assigned for
\* every payload.
PushEnvelope(pe, payload) ==
    [pe EXCEPT !.Rid = payload.Kind, !.Method = payload.Op,
               !.Uri = payload.Uri, !.Data = payload.Json]

\* pushLoop, case payload := <-duct: the payload is copied into pe and pe is
\* written; a write error returns.  taken and pushes record the payloads
\* received and the messages whose write succeeded.
PushLoopPayload ==
    /\ ~panicked
    /\ conn.pushLoop = "loop"
    /\ ducts[conn.duct].buf # <<>>
    /\ ducts' = [ducts EXCEPT ![conn.duct].buf = Tail(@)]
    /\ LET payload == Head(ducts[conn.duct].buf)
           pe == PushEnvelope(conn.pe, payload)
           received == [conn EXCEPT !.pe = pe, !.taken = Append(@, payload),
                                    !.pushWrite = FALSE]
       IN  \E fails \in PushWriteOutcomes :
               IF fails
               THEN /\ conn' = PushLoopReturn(received)
                    /\ UNCHANGED wire
               ELSE /\ wire' = ServerWrite(wire, EncodeEnvelope(pe))
                    /\ conn' = [received EXCEPT !.pushes = Append(@, EncodeEnvelope(pe))]
    /\ UNCHANGED <<sessionVars, topicVars, callVars, egress, pushCall, panicked, fanned, brokerVars,
                   client, restExec, now>>

\* pushLoop, case <-ticker.C: a ping is written; a write error returns.
PushLoopPing ==
    /\ ~panicked
    /\ conn.pushLoop = "loop"
    /\ \E fails \in PushWriteOutcomes :
           IF fails
           THEN /\ conn' = PushLoopReturn(conn)
                /\ UNCHANGED wire
           ELSE /\ wire' = ServerWrite(wire, PingMessage)
                /\ conn' = [conn EXCEPT !.nextTick = now + PingInterval, !.pushWrite = FALSE]
    /\ UNCHANGED <<engineVars, client, restExec, now>>

\* pushLoop, deferred: push.CloseSession begins with unsubscribeAll.
PushLoopClear ==
    /\ conn.pushLoop = "closing"
    /\ CloseSessionClear(conn.duct)

\* pushLoop, deferred: CloseSession has returned; c.ws.Close().
PushLoopWsClose ==
    /\ ~panicked
    /\ conn.pushLoop = "closing"
    /\ ducts[conn.duct].closing = 3
    /\ conn' = [conn EXCEPT !.pushLoop = "exited"]
    /\ wire' = [wire EXCEPT !.serverClosed = TRUE]
    /\ UNCHANGED <<engineVars, client, restExec, now>>

\* The calls pushLoop has yet to make: OpenSession, and CloseSession's CLEAR.
\* The other callers leave room for them in the bound on the calls.
PushLoopCalls ==
    (IF ducts = <<>> THEN 1 ELSE 0) + (IF ducts = <<>> \/ ducts[1].closing = 0 THEN 1 ELSE 0)

\* A handler subscribes the connection's session to a topic.
HandlerSubscribe ==
    /\ conn.apiLoop = "read"
    /\ NumCalls + PushLoopCalls < callBudget
    /\ \E uri \in Uris : Subscribe(uri, ConnUserId, ConnSessionId, TRUE)

\* Another part of the server publishes to a topic.
BackendPublish ==
    /\ NumCalls + PushLoopCalls < callBudget
    /\ \E uri \in Uris : Publish(uri)

\* The client receives what the server wrote, answering a ping with a pong.
PeerReceive ==
    /\ ~panicked
    /\ wire.toClient # <<>>
    /\ ~wire.clientClosed
    /\ ~wire.deaf
    /\ Len(wire.toServer) < MaxMsgs
    /\ wire' = IF Head(wire.toClient).type = "ping"
               THEN ClientWrite([wire EXCEPT !.toClient = Tail(@)], PongMessage)
               ELSE [wire EXCEPT !.toClient = Tail(@)]
    /\ UNCHANGED <<engineVars, conn, client, restExec, now>>

----------------------------------------------------------------------------
\* Connection protocol, client side: NewClient, Client.readLoop, Client.RestExec.

\* Before NewClient there is no read loop.  resp is readLoop's variable, late
\* tells that resp was read with no RestExec waiting after one had timed out,
\* cb counts the calls of connErrorCb, exit is why readLoop returned, closed
\* that Close was called, panic that the client process has panicked.
NoClient ==
    [readLoop |-> "none", resp |-> ZeroEnvelope, late |-> FALSE, syncClosed |-> FALSE,
     cb |-> 0, exit |-> "", deadline |-> 0, once |-> FALSE, closed |-> FALSE,
     panic |-> FALSE]

\* NewClient(..., once, ...): dials, makes readLoopSync and starts readLoop,
\* which sets the read deadline.
NewClient(once) ==
    /\ ~panicked
    /\ client.readLoop = "none"
    /\ client' = [client EXCEPT !.readLoop = "read", !.once = once,
                                !.deadline = now + PingTimeout]
    /\ UNCHANGED <<engineVars, wire, conn, restExec, now>>

connErrorCallsAlways(cause) == 1

\* The calls of connErrorCb readLoop makes when it returns: one when ReadJSON
\* timed out or failed otherwise, none on io.EOF or after the one response of
\* once mode.
connErrorCalls(cause) == IF cause \in {"timeout", "error"} THEN 1 ELSE 0

\* readLoop returns: connErrorCb for a failed read, then the deferred
\* c.ws.Close() and close(c.readLoopSync), which panics when Close has closed
\* the channel already.
ReadLoopReturn(c, cause) ==
    [c EXCEPT !.readLoop = "exited", !.exit = cause, !.cb = @ + connErrorCalls(cause),
              !.syncClosed = TRUE, !.panic = c.syncClosed]

\* Client.Close(): c.ws.Close() and close(c.readLoopSync).  The close panics
\* when readLoop has returned and closed the channel, and makes a readLoop
\* that is blocked in its send panic.
Close ==
    /\ ~panicked
    /\ ~client.panic
    /\ client.readLoop # "none"
    /\ ~client.closed
    /\ client' = [client EXCEPT !.closed = TRUE, !.syncClosed = TRUE,
                                !.panic = client.syncClosed \/ client.readLoop = "send"]
    /\ wire' = [wire EXCEPT !.clientClosed = TRUE]
    /\ UNCHANGED <<engineVars, conn, restExec, now>>

\* readLoop, ReadJSON fails because Close closed the websocket under it.
ClientReadAfterClose ==
    /\ ~panicked
    /\ ~client.panic
    /\ client.readLoop = "read"
    /\ wire.clientClosed
    /\ client' = ReadLoopReturn(client, "error")
    /\ UNCHANGED <<engineVars, wire, conn, restExec, now>>

\* A RestExec call timed out and none is waiting.
NoneWaitingAfterTimeout ==
    /\ restExec.call = <<>>
    /\ restExec.done # <<>>
    /\ restExec.done[1].err = "ErrTimeout"

\* readLoop, one envelope: resp is reset, ReadJSON(&resp); a push is skipped,
\* a response goes to c.readLoopSync <- resp.
ClientRead ==
    /\ ~panicked
    /\ client.readLoop = "read"
    /\ ~wire.clientClosed
    /\ now < client.deadline
    /\ wire.toClient # <<>>
    /\ Head(wire.toClient).type = "json"
    /\ LET resp == DecodeEnvelope([client.resp EXCEPT !.Data = "", !.Error = "",
                                                      !.Rid = "", !.Method = ""],
                                  Head(wire.toClient))
       IN  client' = [client EXCEPT
               !.resp = resp,
               !.readLoop = IF resp.Push THEN "read" ELSE "send",
               !.late = ~resp.Push /\ NoneWaitingAfterTimeout]
    /\ wire' = [wire EXCEPT !.toClient = Tail(@)]
    /\ UNCHANGED <<engineVars, conn, restExec, now>>

\* readLoop, the ping handler: a pong is written and the read deadline is
\* refreshed; when the write fails ReadJSON returns the error.
ClientPing ==
    /\ ~panicked
    /\ client.readLoop = "read"
    /\ ~wire.clientClosed
    /\ now < client.deadline
    /\ wire.toClient # <<>>
    /\ Head(wire.toClient).type = "ping"
    /\ \E fails \in WriteOutcomes(wire.clientClosed, wire.serverClosed) :
           IF fails
           THEN /\ client' = ReadLoopReturn(client, "error")
                /\ wire' = [wire EXCEPT !.toClient = Tail(@), !.clientClosed = TRUE]
           ELSE /\ client' = [client EXCEPT !.deadline = now + PingTimeout]
                /\ wire' = ClientWrite([wire EXCEPT !.toClient = Tail(@)], PongMessage)
    /\ UNCHANGED <<engineVars, conn, restExec, now>>

\* readLoop, ReadJSON fails on a message that does not decode.
ClientReadError ==
    /\ ~panicked
    /\ client.readLoop = "read"
    /\ ~wire.clientClosed
    /\ now < client.deadline
    /\ wire.toClient # <<>>
    /\ Head(wire.toClient).type = "garbage"
    /\ client' = ReadLoopReturn(client, "error")
    /\ wire' = [wire EXCEPT !.toClient = Tail(@), !.clientClosed = TRUE]
    /\ UNCHANGED <<engineVars, conn, restExec, now>>

\* readLoop, ReadJSON fails because the server closed the connection: io.EOF
\* or another error, as the websocket library reports it.
ClientReadClosed(cause) ==
    /\ ~panicked
    /\ client.readLoop = "read"
    /\ ~wire.clientClosed
    /\ now < client.deadline
    /\ wire.toClient = <<>>
    /\ wire.serverClosed
    /\ client' = ReadLoopReturn(client, cause)
    /\ wire' = [wire EXCEPT !.clientClosed = TRUE]
    /\ UNCHANGED <<engineVars, conn, restExec, now>>

\* readLoop, ReadJSON times out: the read deadline has passed.
ClientReadTimeout ==
    /\ ~panicked
    /\ client.readLoop = "read"
    /\ ~wire.clientClosed
    /\ now >= client.deadline
    /\ client' = ReadLoopReturn(client, "timeout")
    /\ wire' = [wire EXCEPT !.clientClosed = TRUE]
    /\ UNCHANGED <<engineVars, conn, restExec, now>>

\* RestExec returns err: done holds the call that returned last with what it
\* left in respData and respErr, calls counts the calls that returned and
\* answered the ones that were handed an envelope.  got tells that an envelope
\* was received, gotRid is its id, late its mark.
Returned(call, err, respData, respErr, got, resp, late) ==
    [call |-> <<>>,
     done |-> <<[rid |-> call.rid, err |-> err, respData |-> respData,
                 respErr |-> respErr, got |-> got, gotRid |-> resp.Rid, late |-> late]>>,
     calls |-> restExec.calls + 1,
     answered |-> restExec.answered + (IF got THEN 1 ELSE 0)]

\* RestExec(rid, "GET", uri, nil, respData, respErr): the request is written
\* and the ticker made; a failed write returns ErrNetAccess.
RestExec(rid, uri) ==
    /\ ~panicked
    /\ ~client.panic
    /\ client.readLoop # "none"
    /\ restExec.call = <<>>
    /\ restExec.calls < MaxRequests
    /\ LET req == [ZeroEnvelope EXCEPT !.Rid = rid, !.Method = "GET", !.Uri = uri]
           call == [rid |-> rid, sentAt |-> now, wait |-> now + ResponseTimeout * Second]
       IN  \E fails \in WriteOutcomes(wire.clientClosed, wire.serverClosed) :
               IF fails
               THEN /\ restExec' = Returned(call, "ErrNetAccess", "", "", FALSE,
                                            ZeroEnvelope, FALSE)
                    /\ UNCHANGED wire
               ELSE /\ restExec' = [restExec EXCEPT !.call = <<call>>]
                    /\ wire' = ClientWrite(wire, EncodeEnvelope(req))
    /\ UNCHANGED <<engineVars, conn, client, now>>

\* RestExec, case resp, ok := <-c.readLoopSync with ok: the checks in the
\* order of the code.
RestExecResult(call, resp) ==
    IF resp.Method = "" THEN [err |-> "ErrNetAccess", respData |-> "", respErr |-> ""]
    ELSE IF resp.Error # "" THEN [err |-> "ErrInternal", respData |-> "", respErr |-> resp.Error]
    ELSE IF call.rid # resp.Rid THEN [err |-> "ErrNotFound", respData |-> "", respErr |-> ""]
    ELSE IF JsonUnmarshal(resp.Data).err
         THEN [err |-> "ErrJsonDecode", respData |-> "", respErr |-> ""]
    ELSE [err |-> "nil", respData |-> JsonUnmarshal(resp.Data).v, respErr |-> ""]

\* readLoopSync is unbuffered: readLoop's send and RestExec's receive happen
\* together.  RestExec returns; readLoop reads on, or returns in once mode.
RestExecResponse ==
    /\ ~panicked
    /\ ~client.panic
    /\ restExec.call # <<>>
    /\ client.readLoop = "send"
    /\ LET call == restExec.call[1]
           res == RestExecResult(call, client.resp)
       IN  restExec' = Returned(call, res.err, res.respData, res.respErr, TRUE,
                                client.resp, client.late)
    /\ IF client.once
       THEN /\ client' = ReadLoopReturn(client, "once")
            /\ wire' = [wire EXCEPT !.clientClosed = TRUE]
       ELSE /\ client' = [client EXCEPT !.readLoop = "read"]
            /\ UNCHANGED wire
    /\ UNCHANGED <<engineVars, conn, now>>

\* RestExec, case resp, ok := <-c.readLoopSync with the channel closed.
RestExecClosed ==
    /\ ~panicked
    /\ ~client.panic
    /\ restExec.call # <<>>
    /\ client.syncClosed
    /\ restExec' = Returned(restExec.call[1], "ErrNetAccess", "", "", FALSE, ZeroEnvelope, FALSE)
    /\ UNCHANGED <<engineVars, wire, conn, client, now>>

\* RestExec, case <-wait.C: the ticker fired.
RestExecTimeout ==
    /\ ~panicked
    /\ ~client.panic
    /\ restExec.call # <<>>
    /\ now >= restExec.call[1].wait
    /\ restExec' = Returned(restExec.call[1], "ErrTimeout", "", "", FALSE, ZeroEnvelope, FALSE)
    /\ UNCHANGED <<engineVars, wire, conn, client, now>>

\* A timer of the client has expired and its goroutine has yet to run.
TimerDue ==
    \/ restExec.call # <<>> /\ now >= restExec.call[1].wait
    \/ client.readLoop = "read" /\ ~wire.clientClosed /\ now >= client.deadline

\* The times at which a timer of the client expires.
Timers ==
    {restExec.call[i].wait : i \in DOMAIN restExec.call}
        \cup {client.deadline : x \in {y \in {1} : client.readLoop = "read" /\ ~wire.clientClosed}}

\* The clock advances to the next expiry of a timer, or by one ping period
\* when that comes first; a due timer is served before it advances further.
\* With no timer set nothing reads the clock.
Tick ==
    /\ ~panicked
    /\ ~client.panic
    /\ Timers # {}
    /\ ~TimerDue
    /\ now < MaxTicks * PingInterval
    /\ now' = IF \E t \in Timers : t < now + PingInterval
              THEN CHOOSE t \in Timers : \A u \in Timers : t <= u
              ELSE now + PingInterval
    /\ UNCHANGED <<engineVars, wire, conn, client, restExec>>

\* An arbitrary server: a response with the id of the request and data, a
\* response with another id carrying data or an error, a push envelope, a
\* ping, a message that is no JSON.
ResponseMsgs ==
    {EncodeEnvelope([ZeroEnvelope EXCEPT !.Rid = d[1], !.Method = "GET", !.Uri = "/a",
                                         !.Data = d[2], !.Error = d[3]]) :
        d \in {<<"r1", JsonMarshal("v1").text, "">>, <<"r2", JsonMarshal("v1").text, "">>,
               <<"r2", "", ErrJson("ErrInvalidInput")>>}}
    \cup {EncodeEnvelope([ZeroEnvelope EXCEPT !.Rid = "kind", !.Method = "PUSH", !.Uri = "t1",
                                              !.Push = TRUE])}
    \cup {Garbage, PingMessage}

PeerRespond(m) ==
    /\ ~panicked
    /\ client.readLoop # "none"
    /\ wire.sent < MaxMsgs
    /\ ~WireClosed(wire)
    /\ wire' = [ServerWrite(wire, m) EXCEPT !.sent = @ + 1]
    /\ UNCHANGED <<engineVars, conn, client, restExec, now>>

\* The server closes the connection.
PeerServerClose ==
    /\ ~panicked
    /\ client.readLoop # "none"
    /\ ~wire.serverClosed
    /\ wire' = [wire EXCEPT !.serverClosed = TRUE]
    /\ UNCHANGED <<engineVars, conn, client, restExec, now>>

----------------------------------------------------------------------------
\* The engine under arbitrary callers.

\* Init(casMode = true): startTopicMgr and startSessionMgr; nothing is online.
\* initNats reads push-nats.disable of the configuration into DisableBroker;
\* budget is the number of calls the callers will make.
InitConfig(disable, budget) ==
    /\ sessionsUsers = EmptyMap
    /\ sessionsCmdDuct = <<>>
    /\ topicsTopics = EmptyMap
    /\ topicsSubscriptions = EmptyMap
    /\ topicsCmdDuct = <<>>
    /\ topicList = <<>>
    /\ ducts = <<>>
    /\ sweep = [active |-> FALSE, todo |-> {}, cur |-> "", locked |-> ""]
    /\ egress = {}
    /\ pushCall = <<>>
    /\ panicked = FALSE
    /\ nTopicCmds = 0
    /\ nPayloads = 0
    /\ returned = {}
    /\ lastCall = EmptyMap
    /\ dropped = {}
    /\ owed = EmptyMap
    /\ pushed = EmptyMap
    /\ sessSent = <<>>
    /\ sessApplied = <<>>
    /\ fanned = EmptyMap
    /\ DisableBroker = disable
    /\ callBudget = budget
    /\ broker = <<>>
    /\ fromBroker = {}
    /\ calls = EmptyMap
    /\ wire = NewWire
    /\ conn = NewConn
    /\ client = NoClient
    /\ restExec = [call |-> <<>>, done |-> <<>>, calls |-> 0, answered |-> 0]
    /\ now = 0

\* The node delivers locally: the broker is disabled.
Init == InitConfig(TRUE, MaxCalls)

\* The steps of the actors behind the API, and the later statements of the
\* calls in progress.
Engine ==
    \/ SessionMgr
    \/ TopicMgrSubscribe
    \/ TopicMgrUnsubscribe
    \/ TopicMgrClear
    \/ \E t \in DOMAIN topicList : WorkerCmd(t)
    \/ \E t \in DOMAIN topicList : WorkerPayload(t)
    \/ \E t \in DOMAIN topicList : \E skey \in DOMAIN topicList[t].subscribers :
           WorkerSend(t, skey)
    \/ \E e \in egress : PublishSend(e)
    \/ \E d \in DOMAIN ducts : CloseSessionOffline(d)
    \/ \E d \in DOMAIN ducts : CloseSessionClose(d)

\* The cleanup ticker may fire whenever topicMgrLoop is at its select.
Cleanup ==
    \/ SweepBegin
    \/ \E uri \in Uris : SweepVisit(uri)
    \/ SweepDelete
    \/ SweepEnd

\* The callers open sessions and subscribe the way the connection layer and
\* the package's tests do, waiting for completion.
Next ==
    \/ \E u \in UserIds, s \in SessionIds : OpenSession(u, s, TRUE)
    \/ \E d \in DOMAIN ducts : CloseSessionClear(d)
    \/ \E uri \in Uris, u \in UserIds, s \in SessionIds : Subscribe(uri, u, s, TRUE)
    \/ \E uri \in Uris, u \in UserIds, s \in SessionIds : Unsubscribe(uri, u, s)
    \/ \E uri \in Uris : Publish(uri)
    \/ \E d \in DOMAIN ducts : Consume(d)
    \/ Engine
    \/ Cleanup

Spec == Init /\ [][Next]_vars

----------------------------------------------------------------------------
\* The engine under the callers of TestPushToUser.

\* mockClient of a user test: the client opens its session once, waits for
\* the registration and then only receives.
mockClient(userId, sessionId) ==
    /\ \A d \in DOMAIN ducts : ducts[d].userId # userId
    /\ OpenSession(userId, sessionId, TRUE)

\* The users of the push test, and the keys of their sessions.
PushUserIds == {"u1", "u2"}

PushKeys == {SessionKeyOf(u, s) : u \in PushUserIds, s \in SessionIds}

\* TestPushToUser: one client per user, PushToUser called in a loop (a call
\* begins when the one before has returned), the client draining its duct.
NextPush ==
    \/ \E u \in PushUserIds, s \in SessionIds : mockClient(u, s)
    \/ SessionMgr
    \/ \E u \in PushUserIds : PushToUser(u)
    \/ \E skey \in PushKeys : PushSend(skey)
    \/ \E d \in DOMAIN ducts : Consume(d)

\* The pushing goroutine and the client goroutine keep running: a send or a
\* receive that stays possible is eventually done.
SpecPush ==
    /\ Init
    /\ [][NextPush]_vars
    /\ WF_vars(SessionMgr)
    /\ WF_vars(\E skey \in PushKeys : PushSend(skey))
    /\ WF_vars(\E d \in DOMAIN ducts : Consume(d))

----------------------------------------------------------------------------
\* The engine with or without the broker, under producers whose objects may
\* fail to build their payload.

InitBroker == \E disable \in BOOLEAN : InitConfig(disable, MaxCalls)

NextBroker ==
    \/ \E u \in UserIds, s \in SessionIds : OpenSession(u, s, TRUE)
    \/ \E uri \in Uris, u \in UserIds, s \in SessionIds : Subscribe(uri, u, s, TRUE)
    \/ \E uri \in Uris : Publish(uri)
    \/ PublishBuildError
    \/ \E uri \in Uris : processPayloadFromBroker(uri)
    \/ \E d \in DOMAIN ducts : Consume(d)
    \/ SessionMgr
    \/ TopicMgrSubscribe
    \/ \E t \in DOMAIN topicList : WorkerCmd(t)
    \/ \E t \in DOMAIN topicList : WorkerPayload(t)
    \/ \E t \in DOMAIN topicList : \E skey \in DOMAIN topicList[t].subscribers :
           WorkerSend(t, skey)
    \/ \E e \in egress : PublishSend(e)
    \/ Cleanup

SpecBroker == InitBroker /\ [][NextBroker]_vars

\* The session registry under callers of PushToUser whose objects may fail to
\* build their payload, with sessions that open and close.
NextPushError ==
    \/ \E u \in PushUserIds, s \in SessionIds : OpenSession(u, s, TRUE)
    \/ SessionMgr
    \/ \E u \in PushUserIds : PushToUser(u)
    \/ \E u \in PushUserIds : PushToUserBuildError(u)
    \/ \E skey \in PushKeys : PushSend(skey)
    \/ \E d \in DOMAIN ducts : Consume(d)
    \/ \E d \in DOMAIN ducts : CloseSessionClear(d)
    \/ TopicMgrClear
    \/ \E d \in DOMAIN ducts : CloseSessionOffline(d)
    \/ \E d \in DOMAIN ducts : CloseSessionClose(d)

SpecPushError == Init /\ [][NextPushError]_vars

----------------------------------------------------------------------------
\* The engine under the callers of TestPublish.

\* The calls made in a run of the topic test.
MaxPublishCalls == 7

\* mockClient of a topic test, after OpenSession has returned: the client
\* subscribes once to the topic, waits, and then receives.
mockSubscribe(uri, userId, sessionId) ==
    /\ \E d \in DOMAIN ducts : /\ ducts[d].userId = userId
                               /\ ducts[d].sessionId = sessionId
                               /\ ducts[d].opened
                               /\ ducts[d].closing = 0
    /\ <<SessionKeyOf(userId, sessionId), uri>> \notin DOMAIN lastCall
    /\ Subscribe(uri, userId, sessionId, TRUE)

\* cs.Spawn has returned: every client has opened its session and its
\* Subscribe has returned (readyWg).
ClientsReady(uri) ==
    \A u \in PushUserIds, s \in SessionIds :
        LET k == <<SessionKeyOf(u, s), uri>>
        IN  k \in DOMAIN lastCall /\ lastCall[k].id \in returned

\* The publisher of TestPublish: once the clients are ready, Publish is
\* called in a loop, a call begins when the one before has returned.
PublishLoop(uri) ==
    /\ ClientsReady(uri)
    /\ egress = {}
    /\ Publish(uri)

\* mockClient of a topic test, cleanup: the client stops receiving, at any
\* time after it became ready, and closes its session.
mockClose(d) ==
    /\ \E uri \in Uris : LET k == CallKey(d, uri)
                         IN  k \in DOMAIN lastCall /\ lastCall[k].id \in returned
    /\ CloseSessionClear(d)

\* TestPublish: one client per user, each subscribed to the topic and
\* draining its duct, a single publisher; a client may close its session
\* before it has received everything, as a connection does.
NextPublish ==
    \/ \E u \in PushUserIds, s \in SessionIds : mockClient(u, s)
    \/ \E uri \in Uris, u \in PushUserIds, s \in SessionIds : mockSubscribe(uri, u, s)
    \/ \E uri \in Uris : PublishLoop(uri)
    \/ \E e \in egress : PublishSend(e)
    \/ \E d \in DOMAIN ducts : Consume(d)
    \/ SessionMgr
    \/ TopicMgrSubscribe
    \/ TopicMgrClear
    \/ \E t \in DOMAIN topicList : WorkerCmd(t)
    \/ \E t \in DOMAIN topicList : WorkerPayload(t)
    \/ \E t \in DOMAIN topicList : \E skey \in DOMAIN topicList[t].subscribers :
           WorkerSend(t, skey)
    \/ \E d \in DOMAIN ducts : mockClose(d)
    \/ \E d \in DOMAIN ducts : CloseSessionOffline(d)
    \/ \E d \in DOMAIN ducts : CloseSessionClose(d)

\* Every goroutine keeps running: the managers, the workers, the publisher's
\* send, the clients' receives and the statements of a CloseSession under way.
FairPublish ==
    /\ WF_vars(SessionMgr)
    /\ WF_vars(TopicMgrSubscribe)
    /\ WF_vars(TopicMgrClear)
    /\ WF_vars(\E t \in DOMAIN topicList : WorkerCmd(t))
    /\ WF_vars(\E t \in DOMAIN topicList : WorkerPayload(t))
    /\ WF_vars(\E t \in DOMAIN topicList : \E skey \in DOMAIN topicList[t].subscribers :
                   WorkerSend(t, skey))
    /\ WF_vars(\E e \in egress : PublishSend(e))
    /\ WF_vars(\E d \in DOMAIN ducts : Consume(d))
    /\ WF_vars(\E d \in DOMAIN ducts : CloseSessionOffline(d))
    /\ WF_vars(\E d \in DOMAIN ducts : CloseSessionClose(d))

SpecPublish == InitConfig(TRUE, MaxPublishCalls) /\ [][NextPublish]_vars /\ FairPublish

\* The topic test with one call more: enough payloads to fill a client's duct
\* and block the fan-out, and a client that closes then.
SpecBackpressure ==
    InitConfig(TRUE, MaxPublishCalls + 1) /\ [][NextPublish]_vars /\ FairPublish

----------------------------------------------------------------------------
\* The session registry under callers that open with and without wait.

NextOpen ==
    \/ \E u \in UserIds, s \in SessionIds, wait \in BOOLEAN : OpenSession(u, s, wait)
    \/ SessionMgr
    \/ \E d \in DOMAIN ducts : CloseSessionClear(d)
    \/ TopicMgrClear
    \/ \E d \in DOMAIN ducts : CloseSessionOffline(d)
    \/ \E d \in DOMAIN ducts : CloseSessionClose(d)

SpecOpen == Init /\ [][NextOpen]_vars

\* The request loop of one connection under an arbitrary client.
NextServer ==
    \/ \E m \in RequestMsgs : PeerRequest(m)
    \/ PeerClose
    \/ \E reply \in HandlerReplies : ApiRequest(reply)
    \/ ApiDecodeError
    \/ ApiEof
    \/ ApiTimeout

SpecServer == Init /\ [][NextServer]_vars

\* One client, whose requests carry the id "r1", under an arbitrary server,
\* with the clock.
NextClient ==
    \/ \E once \in BOOLEAN : NewClient(once)
    \/ RestExec("r1", "/a")
    \/ RestExecResponse
    \/ RestExecClosed
    \/ RestExecTimeout
    \/ ClientRead
    \/ ClientPing
    \/ ClientReadError
    \/ \E cause \in {"eof", "error"} : ClientReadClosed(cause)
    \/ ClientReadTimeout
    \/ ClientReadAfterClose
    \/ Close
    \/ \E m \in ResponseMsgs : PeerRespond(m)
    \/ PeerServerClose
    \/ Tick

SpecClient == Init /\ [][NextClient]_vars

\* One client and the request loop of its connection: RestExec with any id
\* or none, answered by the handlers.
NextRoundTrip ==
    \/ \E once \in BOOLEAN : NewClient(once)
    \/ \E rid \in Rids \cup {""}, uri \in RequestUris : RestExec(rid, uri)
    \/ \E reply \in HandlerReplies : ApiRequest(reply)
    \/ ApiEof
    \/ ApiTimeout
    \/ ClientRead
    \/ \E cause \in {"eof", "error"} : ClientReadClosed(cause)
    \/ RestExecResponse
    \/ RestExecClosed

SpecRoundTrip == Init /\ [][NextRoundTrip]_vars

\* StartLoop: both loops of one connection with the push engine behind
\* pushLoop, a handler that subscribes the session, a publisher, and a client
\* that receives, answers pings and closes.
NextConn ==
    \/ PushLoopOpen
    \/ PushLoopOpened
    \/ PushLoopPayload
    \/ PushLoopPing
    \/ PushLoopClear
    \/ PushLoopWsClose
    \/ \E d \in DOMAIN ducts : CloseSessionOffline(d)
    \/ \E d \in DOMAIN ducts : CloseSessionClose(d)
    \/ SessionMgr
    \/ TopicMgrSubscribe
    \/ TopicMgrClear
    \/ \E t \in DOMAIN topicList : WorkerCmd(t)
    \/ \E t \in DOMAIN topicList : WorkerPayload(t)
    \/ \E t \in DOMAIN topicList : \E skey \in DOMAIN topicList[t].subscribers :
           WorkerSend(t, skey)
    \/ \E e \in egress : PublishSend(e)
    \/ HandlerSubscribe
    \/ BackendPublish
    \/ ApiEof
    \/ ApiTimeout
    \/ ApiClosed
    \/ ApiPong
    \/ PeerReceive
    \/ PeerClose

\* Every goroutine of the server keeps running: a step of a loop, of a
\* registry or of a topic worker that stays possible is eventually taken, and
\* the ping ticker keeps firing.  Nothing is assumed of the client, the
\* handler or the publisher.
SpecConn ==
    /\ Init
    /\ [][NextConn]_vars
    /\ WF_vars(PushLoopOpen)
    /\ WF_vars(PushLoopOpened)
    /\ WF_vars(PushLoopPayload)
    /\ WF_vars(PushLoopPing)
    /\ WF_vars(PushLoopClear)
    /\ WF_vars(PushLoopWsClose)
    /\ WF_vars(\E d \in DOMAIN ducts : CloseSessionOffline(d))
    /\ WF_vars(\E d \in DOMAIN ducts : CloseSessionClose(d))
    /\ WF_vars(SessionMgr)
    /\ WF_vars(TopicMgrSubscribe)
    /\ WF_vars(TopicMgrClear)
    /\ WF_vars(\E t \in DOMAIN topicList : WorkerCmd(t))
    /\ WF_vars(\E t \in DOMAIN topicList : WorkerPayload(t))
    /\ WF_vars(\E t \in DOMAIN topicList : \E skey \in DOMAIN topicList[t].subscribers :
                   WorkerSend(t, skey))
    /\ WF_vars(\E e \in egress : PublishSend(e))
    /\ WF_vars(ApiEof)
    /\ WF_vars(ApiClosed)
    /\ WF_vars(ApiPong)

\* The push loop of one connection under a backend that pushes to the
\* connection's user and publishes to the topic a handler subscribed it to.
BackendPush ==
    /\ NumCalls + PushLoopCalls < callBudget
    /\ PushToUser(ConnUserId)

NextPushLoop ==
    \/ PushLoopOpen
    \/ PushLoopOpened
    \/ PushLoopPayload
    \/ PushLoopPing
    \/ PushLoopClear
    \/ PushLoopWsClose
    \/ \E d \in DOMAIN ducts : CloseSessionOffline(d)
    \/ \E d \in DOMAIN ducts : CloseSessionClose(d)
    \/ SessionMgr
    \/ TopicMgrSubscribe
    \/ TopicMgrClear
    \/ \E t \in DOMAIN topicList : WorkerCmd(t)
    \/ \E t \in DOMAIN topicList : WorkerPayload(t)
    \/ \E t \in DOMAIN topicList : \E skey \in DOMAIN topicList[t].subscribers :
           WorkerSend(t, skey)
    \/ \E e \in egress : PublishSend(e)
    \/ \E skey \in SessionKeys : PushSend(skey)
    \/ HandlerSubscribe
    \/ BackendPublish
    \/ BackendPush
    \/ PeerReceive
    \/ PeerClose

SpecPushLoop == Init /\ [][NextPushLoop]_vars

\* One connection and its client under the clock.  The client answers every
\* ping until it falls silent: from then on it reads nothing and sends nothing.
PeerStall ==
    /\ ~panicked
    /\ ~wire.deaf
    /\ ~WireClosed(wire)
    /\ ReadDeadline(now) <= MaxTicks * PingInterval
    /\ wire' = [wire EXCEPT !.deaf = TRUE]
    /\ UNCHANGED <<engineVars, conn, client, restExec, now>>

\* apiLoop, ReadJSON returns a timeout: the read deadline has passed.
ApiReadTimeout ==
    /\ now >= conn.deadline
    /\ ApiTimeout

\* pushLoop, case <-ticker.C, when the ticker fires.
PushLoopTick ==
    /\ now >= conn.nextTick
    /\ PushLoopPing

\* Time passes, up to the next ping or the read deadline, while both loops
\* wait: what was written has been read, by the server and by a client that
\* still reads.
ServerTick ==
    /\ ~panicked
    /\ conn.apiLoop = "read"
    /\ conn.pushLoop = "loop"
    /\ ~WireClosed(wire)
    /\ wire.toServer = <<>>
    /\ wire.deaf \/ wire.toClient = <<>>
    /\ now < conn.deadline
    /\ now < conn.nextTick
    /\ now < MaxTicks * PingInterval
    /\ now' = IF conn.deadline < conn.nextTick THEN conn.deadline ELSE conn.nextTick
    /\ UNCHANGED <<engineVars, wire, conn, client, restExec>>

\* The request the client repeats, and the handler's answer to it.
KeepAliveRequest ==
    EncodeEnvelope([ZeroEnvelope EXCEPT !.Rid = "r1", !.Method = "GET", !.Uri = "/a"])

KeepAliveReply == [ok |-> TRUE, v |-> "v1"]

NextLiveness ==
    \/ PushLoopOpen
    \/ PushLoopOpened
    \/ PushLoopTick
    \/ PushLoopClear
    \/ PushLoopWsClose
    \/ \E d \in DOMAIN ducts : CloseSessionOffline(d)
    \/ \E d \in DOMAIN ducts : CloseSessionClose(d)
    \/ SessionMgr
    \/ TopicMgrClear
    \/ PeerRequest(KeepAliveRequest)
    \/ ApiRequest(KeepAliveReply)
    \/ ApiPong
    \/ ApiEof
    \/ ApiClosed
    \/ ApiReadTimeout
    \/ PeerReceive
    \/ PeerStall
    \/ PeerClose
    \/ ServerTick

\* Both loops, the registries and the clock keep running; nothing is assumed
\* of the client.
SpecLiveness ==
    /\ Init
    /\ [][NextLiveness]_vars
    /\ WF_vars(PushLoopOpen)
    /\ WF_vars(PushLoopOpened)
    /\ WF_vars(PushLoopTick)
    /\ WF_vars(PushLoopClear)
    /\ WF_vars(PushLoopWsClose)
    /\ WF_vars(\E d \in DOMAIN ducts : CloseSessionOffline(d))
    /\ WF_vars(\E d \in DOMAIN ducts : CloseSessionClose(d))
    /\ WF_vars(SessionMgr)
    /\ WF_vars(TopicMgrClear)
    /\ WF_vars(ApiRequest(KeepAliveReply))
    /\ WF_vars(ApiPong)
    /\ WF_vars(ApiEof)
    /\ WF_vars(ApiClosed)
    /\ WF_vars(ApiReadTimeout)
    /\ WF_vars(ServerTick)

\* The two loops of one connection with their writes in two steps: a loop
\* enters WriteJSON or WriteMessage on c.ws, and later the write returns.
\* apiWrite and pushWrite tell that the loop is inside a write.

\* apiLoop has read a request, run the handler and entered the write of the
\* response in wsReturnOk or wsReturnError.
ApiWriteBegin ==
    /\ ~panicked
    /\ conn.apiLoop = "read"
    /\ ~conn.apiWrite
    /\ ~wire.serverClosed
    /\ wire.toServer # <<>>
    /\ Head(wire.toServer).type = "json"
    /\ conn' = [conn EXCEPT !.apiWrite = TRUE]
    /\ UNCHANGED <<engineVars, wire, client, restExec, now>>

\* The write of the response returns.
ApiWriteEnd(reply) ==
    /\ conn.apiWrite
    /\ ApiRequest(reply)

\* pushLoop has received a payload or a tick and entered the write of the
\* push envelope or of the ping.
PushWriteBegin ==
    /\ ~panicked
    /\ conn.pushLoop = "loop"
    /\ ~conn.pushWrite
    /\ conn' = [conn EXCEPT !.pushWrite = TRUE]
    /\ UNCHANGED <<engineVars, wire, client, restExec, now>>

\* The write of the push envelope returns.
PushPayloadWriteEnd ==
    /\ conn.pushWrite
    /\ PushLoopPayload

\* The write of the ping returns.
PushPingWriteEnd ==
    /\ conn.pushWrite
    /\ PushLoopPing

\* Both loops are inside a write on c.ws, which nothing serialises: besides
\* both messages arriving whole, the frames may be mixed, so that the client
\* reads a message that does not decode, or the websocket library may panic
\* on the concurrent write.
WriteRace(outcome) ==
    /\ ~panicked
    /\ conn.apiWrite
    /\ conn.pushWrite
    /\ IF outcome = "panic"
       THEN /\ panicked' = TRUE
            /\ UNCHANGED <<wire, conn>>
       ELSE /\ FALSE \in PushWriteOutcomes
            /\ wire' = ServerWrite(wire, Garbage)
            /\ conn' = [conn EXCEPT !.pushWrite = FALSE]
            /\ UNCHANGED panicked
    /\ UNCHANGED <<sessionVars, topicVars, callVars, ducts, egress, pushCall, fanned,
                   brokerVars, client, restExec, now>>

NextWriters ==
    \/ PushLoopOpen
    \/ PushLoopOpened
    \/ SessionMgr
    \/ BackendPush
    \/ \E skey \in SessionKeys : PushSend(skey)
    \/ PeerRequest(KeepAliveRequest)
    \/ ApiWriteBegin
    \/ \E reply \in HandlerReplies : ApiWriteEnd(reply)
    \/ PushWriteBegin
    \/ PushPayloadWriteEnd
    \/ PushPingWriteEnd
    \/ \E outcome \in {"mixed", "panic"} : WriteRace(outcome)
    \/ PeerReceive
    \/ PeerClose

SpecWriters == Init /\ [][NextWriters]_vars

\* The cleanup sweep and the topic workers in smaller steps: a worker
\* receives a command from cmdDuct and then takes the topic's lock to apply
\* it; the sweep takes the topic's read lock and then sends STOP.  taken
\* tells that the worker has received the command at the head of the
\* model's cmdDuct, which is no longer in the channel; locked is the topic
\* whose read lock the sweep took and to which it has yet to send.

\* Topic.Loop, case tc := <-t.cmdDuct.
WorkerDequeue(t) ==
    /\ ~panicked
    /\ WorkerAtSelect(t)
    /\ topicList[t].taken = 0
    /\ topicList[t].cmdDuct # <<>>
    /\ topicList' = [topicList EXCEPT ![t].taken = 1]
    /\ UNCHANGED <<sessionVars, topicsTopics, topicsSubscriptions, topicsCmdDuct, sweep,
                   callVars, ducts, egress, pushCall, panicked, fanned, brokerVars, wapiVars>>

\* Topic.Loop, the switch on the command received: t.Lock() and the change,
\* or the return on STOP.
WorkerApply(t) ==
    /\ topicList[t].taken = 1
    /\ WorkerCmd(t)

\* The sweep's range reaches a topic: topic.RLock().
SweepRLock(uri) ==
    /\ ~panicked
    /\ sweep.active
    /\ sweep.cur = ""
    /\ sweep.locked = ""
    /\ uri \in sweep.todo
    /\ sweep' = [sweep EXCEPT !.locked = uri]
    /\ UNCHANGED <<sessionVars, topicsTopics, topicsSubscriptions, topicsCmdDuct, topicList,
                   callVars, ducts, egress, pushCall, panicked, fanned, brokerVars, wapiVars>>

\* Under the read lock: the subscribers are counted and STOP is sent.
SweepSend(uri) ==
    /\ sweep.locked = uri
    /\ SweepVisit(uri)

\* Callers that subscribe sessions nobody opened: the topics stay without
\* subscribers and the sweep stops them.
NextSweep ==
    \/ \E uri \in Uris, u \in UserIds, s \in SessionIds : Subscribe(uri, u, s, TRUE)
    \/ TopicMgrSubscribe
    \/ \E t \in DOMAIN topicList : WorkerDequeue(t)
    \/ \E t \in DOMAIN topicList : WorkerApply(t)
    \/ SweepBegin
    \/ \E uri \in Uris : SweepRLock(uri)
    \/ \E uri \in Uris : SweepSend(uri)
    \/ SweepDelete
    \/ SweepEnd

\* The registry and the workers keep running.
SpecSweep ==
    /\ Init
    /\ [][NextSweep]_vars
    /\ WF_vars(TopicMgrSubscribe)
    /\ WF_vars(\E t \in DOMAIN topicList : WorkerDequeue(t))
    /\ WF_vars(\E t \in DOMAIN topicList : WorkerApply(t))
    /\ WF_vars(\E uri \in Uris : SweepRLock(uri))
    /\ WF_vars(\E uri \in Uris : SweepSend(uri))
    /\ WF_vars(SweepDelete)
    /\ WF_vars(SweepEnd)

\* A subscriber that never receives: session u1:a subscribes to t1 and its
\* holder never reads the output channel; a publisher publishes to t1 until
\* the worker is blocked; another session then subscribes to t1 and to t2
\* without waiting.
StallUris == {"t1", "t2"}

StallCalls == DATA_DUCT_BUFFER_MAX + CMD_DUCT_BUFFER_MAX + 5

StalledKey == SessionKeyOf("u1", "a")

\* The worker of the topic with this uri is inside a fan-out, blocked on the
\* full output channel of the session that never receives.
WorkerStalled(uri) ==
    /\ uri \in DOMAIN topicsTopics
    /\ LET t == topicsTopics[uri]
       IN  /\ topicList[t].fan # <<>>
           /\ StalledKey \in topicList[t].fan[1].rem
           /\ Len(ducts[topicList[t].subscribers[StalledKey]].buf) >= DATA_DUCT_BUFFER_MAX

StalledOpen ==
    /\ ducts = <<>>
    /\ OpenSession("u1", "a", TRUE)

StalledSubscribe == mockSubscribe("t1", "u1", "a")

StallPublish ==
    /\ <<StalledKey, "t1">> \in DOMAIN lastCall
    /\ lastCall[<<StalledKey, "t1">>].id \in returned
    /\ ~WorkerStalled("t1")
    /\ egress = {}
    /\ Publish("t1")

OtherSubscribe(uri) ==
    /\ WorkerStalled("t1")
    /\ Subscribe(uri, "u2", "a", FALSE)

NextStall ==
    \/ StalledOpen
    \/ StalledSubscribe
    \/ StallPublish
    \/ \E uri \in StallUris : OtherSubscribe(uri)
    \/ SessionMgr
    \/ TopicMgrSubscribe
    \/ \E t \in DOMAIN topicList : WorkerCmd(t)
    \/ \E t \in DOMAIN topicList : WorkerPayload(t)
    \/ \E t \in DOMAIN topicList : \E skey \in DOMAIN topicList[t].subscribers :
           WorkerSend(t, skey)
    \/ \E e \in egress : PublishSend(e)

\* The registries, the workers and the publisher's send keep running.
SpecStall ==
    /\ InitConfig(TRUE, StallCalls)
    /\ [][NextStall]_vars
    /\ WF_vars(SessionMgr)
    /\ WF_vars(TopicMgrSubscribe)
    /\ WF_vars(\E t \in DOMAIN topicList : WorkerCmd(t))
    /\ WF_vars(\E t \in DOMAIN topicList : WorkerPayload(t))
    /\ WF_vars(\E t \in DOMAIN topicList : \E skey \in DOMAIN topicList[t].subscribers :
                   WorkerSend(t, skey))
    /\ WF_vars(\E e \in egress : PublishSend(e))

----------------------------------------------------------------------------
\* Properties.

\* The topic registered under the uri in the directory, 0 when there is none.
TopicOf(uri) == IF uri \in DOMAIN topicsTopics THEN topicsTopics[uri] ELSE 0

\* skey is in the subscriber set of the topic registered under uri.
IsSubscriber(skey, uri) ==
    TopicOf(uri) # 0 /\ skey \in DOMAIN topicList[TopicOf(uri)].subscribers

\* No CloseSession is between its first and its last statement.
NoCloseInProgress == \A d \in DOMAIN ducts : ducts[d].closing \in {0, 3}

\* All command channels are empty and no command is being processed.
AtRest ==
    /\ ~panicked
    /\ sessionsCmdDuct = <<>>
    /\ topicsCmdDuct = <<>>
    /\ ~sweep.active
    /\ NoCloseInProgress
    /\ \A t \in DOMAIN topicList : topicList[t].stopped \/ topicList[t].cmdDuct = <<>>

\* Nothing is left to do anywhere: at rest, and every payload handed to
\* processEgress has been fanned out and received.
Quiescent ==
    /\ AtRest
    /\ egress = {}
    /\ pushCall = <<>>
    /\ \A t \in DOMAIN topicList :
           topicList[t].stopped \/ (topicList[t].payloadDuct = <<>> /\ topicList[t].fan = <<>>)
    /\ \A d \in DOMAIN ducts : ducts[d].buf = <<>>

\* The fan-out of payload p by its topic worker is still under way.
FanOutInProgress(p) ==
    LET t == fanned[p].topic
    IN  /\ ~panicked
        /\ topicList[t].fan # <<>>
        /\ topicList[t].fan[1].payload.Data = p

\* C1 (as claimed): once a topic worker has taken payload P from its payload
\* channel and is done with it, P has been written exactly once into the
\* output channel of every session that was in the topic's subscriber set at
\* that moment, and into no other output channel.
FanOutExact ==
    \A p \in DOMAIN fanned :
        ~FanOutInProgress(p) =>
            \A d \in DOMAIN ducts :
                CountIn(p, ducts[d].written) =
                    IF d \in Range(fanned[p].subscribers) THEN 1 ELSE 0

\* The part of C1 the code keeps: a payload is never written twice into an
\* output channel, never into the channel of a session outside the subscriber
\* set of that moment, and a fan-out that ends without a panic has written it
\* to every subscriber.
FanOutExactUnlessPanic ==
    \A p \in DOMAIN fanned :
        \A d \in DOMAIN ducts :
            /\ CountIn(p, ducts[d].written) <= 1
            /\ CountIn(p, ducts[d].written) = 1 => d \in Range(fanned[p].subscribers)
            /\ (~FanOutInProgress(p) /\ ~panicked /\ d \in Range(fanned[p].subscribers))
                   => CountIn(p, ducts[d].written) = 1

\* The session commands applied so far that concern the key.
AppliedFor(userId, sessionId) ==
    {i \in 1..Len(sessApplied) : /\ sessApplied[i].userId = userId
                                 /\ sessApplied[i].sessionId = sessionId}

\* What the registry must hold for a key after the commands applied so far:
\* the duct of the last ONLINE, unless an OFFLINE carrying that very duct was
\* applied after it; nothing without an ONLINE.
ExpectedSession(userId, sessionId) ==
    LET onl == {i \in AppliedFor(userId, sessionId) : sessApplied[i].cmd = "ONLINE"}
    IN  IF onl = {} THEN 0
        ELSE LET last == CHOOSE i \in onl : \A j \in onl : j <= i
                 duct == sessApplied[last].payloadDuct
             IN  IF \E j \in AppliedFor(userId, sessionId) :
                        /\ j > last
                        /\ sessApplied[j].cmd = "OFFLINE"
                        /\ sessApplied[j].payloadDuct = duct
                 THEN 0 ELSE duct

\* C2: an OFFLINE command removes the registry entry of its key only if the
\* entry's recorded channel is the channel the command carries: in every
\* interleaving the registry holds the channel of the last ONLINE applied for
\* the key unless an OFFLINE carrying that same channel was applied after it,
\* so closing C1 after C2 was registered leaves the entry for C2 in place.
ConditionalDestruction ==
    \A u \in UserIds, s \in SessionIds : lookupSession(u, s) = ExpectedSession(u, s)

\* C2, witness: C2 is registered and an OFFLINE carrying the older channel C1 of
\* the same key has been applied after C2's ONLINE.
LateCloseApplied ==
    \E u \in UserIds, s \in SessionIds :
        \E i, j \in AppliedFor(u, s) :
            /\ i < j
            /\ sessApplied[i].cmd = "ONLINE"
            /\ sessApplied[j].cmd = "OFFLINE"
            /\ sessApplied[j].payloadDuct < sessApplied[i].payloadDuct
            /\ lookupSession(u, s) = sessApplied[i].payloadDuct

\* C3 (as claimed): at rest, an open session whose Subscribe/Unsubscribe calls
\* for a topic were all made while it was open is in the subscriber set of the
\* topic registered under the uri if and only if its last call was Subscribe.
SubscribedIffLastCallSubscribe ==
    AtRest =>
        \A u \in UserIds, s \in SessionIds, uri \in Uris :
            LET k == <<SessionKeyOf(u, s), uri>>
            IN  (k \in DOMAIN lastCall /\ lastCall[k].open /\ IsOpenSession(u, s)) =>
                    (IsSubscriber(SessionKeyOf(u, s), uri) <=> lastCall[k].op = "Subscribe")

\* The payload has been received from duct d.
Received(p, d) == CountIn(p, Observed(d)) >= 1

\* C4 (as claimed): when nothing is left to do anywhere, every payload that
\* was published to a uri after OpenSession(wait) and Subscribe(wait) of a
\* session had both returned has been received from the session's duct, if
\* the session is still open and its last call for the uri is that Subscribe.
SubscribeThenWaitDelivers ==
    Quiescent =>
        \A p \in DOMAIN owed :
            \A e \in owed[p].subs :
                (Ready(e[1], owed[p].uri) /\ LastCallOf(e[1], owed[p].uri).id = e[2])
                    => Received(p, e[1])

\* The only duct ever opened for the user, 0 when there is none or several.
SoleSession(userId) ==
    LET ds == {d \in DOMAIN ducts : ducts[d].userId = userId}
    IN  IF Cardinality(ds) = 1 THEN CHOOSE d \in ds : TRUE ELSE 0

\* The payloads PushToUser has built for the user while the user was online,
\* in call order.
PushedTo(userId) == IF userId \in DOMAIN pushed THEN pushed[userId] ELSE <<>>

\* The payloads of the PushToUser calls for the user that have returned.
PushedAndReturned(userId) ==
    IF pushCall # <<>> /\ pushCall[1].userId = userId
    THEN SubSeq(PushedTo(userId), 1, Len(PushedTo(userId)) - 1)
    ELSE PushedTo(userId)

RecreatedTopicDelivers ==
    Quiescent =>
        \A p \in DOMAIN owed :
            \A e \in owed[p].subs :
                (/\ Ready(e[1], owed[p].uri)
                 /\ LastCallOf(e[1], owed[p].uri).id = e[2]
                 /\ LastCallOf(e[1], owed[p].uri).removed)
                    => Received(p, e[1])

\* The part of C6 the code keeps: the sweep removes from the directory
\* exactly the topics it sends STOP to, a topic is sent STOP only with an
\* empty subscriber set, and a uri never has two topics running unstopped.
ReclaimedAndRecreated ==
    /\ \A t \in DOMAIN topicList :
           (\E i \in 1..Len(topicList[t].forwarded) : topicList[t].forwarded[i].cmd = "STOP")
               => (sweep.active \/ TopicOf(topicList[t].uri) # t)
    /\ \A t1, t2 \in DOMAIN topicList :
           (t1 < t2 /\ topicList[t1].uri = topicList[t2].uri) =>
               \E i \in 1..Len(topicList[t1].forwarded) :
                   topicList[t1].forwarded[i].cmd = "STOP"

\* C7: whenever the directory's lock is free to be taken (the cleanup sweep,
\* the only writer that holds it across a send, is not inside its critical
\* section), no topic that has been sent STOP is in the directory.
NoStoppedTopicInDirectory ==
    ~sweep.active =>
        \A uri \in DOMAIN topicsTopics :
            \A i \in 1..Len(topicList[topicsTopics[uri]].forwarded) :
                topicList[topicsTopics[uri]].forwarded[i].cmd # "STOP"

\* C7, witness: the sweep has sent STOP to a topic and left its critical
\* section, and a Subscribe that came after has put a new topic under the uri.
StoppedAndRecreated ==
    /\ ~sweep.active
    /\ \E t \in DOMAIN topicList :
           /\ \E i \in 1..Len(topicList[t].forwarded) : topicList[t].forwarded[i].cmd = "STOP"
           /\ TopicOf(topicList[t].uri) \notin {0, t}

\* C8 (as claimed): at rest, a session key is in the subscriber set of the
\* topic registered under a uri if and only if the subscription index of the
\* key contains the uri.
IndexMatchesSubscribers ==
    AtRest =>
        \A skey \in SessionKeys, uri \in Uris :
            IsSubscriber(skey, uri) <=> uri \in SubscriptionsOf(topicsSubscriptions, skey)

\* A SUBSCRIBE for the uri has been processed by the topic manager since the
\* topic of the uri was last destroyed: some topic started for the uri has
\* been forwarded a SUBSCRIBE and no STOP.
SubscribedSinceDestroyed(uri) ==
    \E t \in DOMAIN topicList :
        /\ topicList[t].uri = uri
        /\ \E i \in 1..Len(topicList[t].forwarded) : topicList[t].forwarded[i].cmd = "SUBSCRIBE"
        /\ \A i \in 1..Len(topicList[t].forwarded) : topicList[t].forwarded[i].cmd # "STOP"

\* C9: outside the sweep's critical section, a uri is a key of the topic
\* directory if and only if a SUBSCRIBE for it has been processed by the topic
\* manager since the uri's topic was last destroyed; publishing to a uri or
\* unsubscribing from it never makes an entry.
DirectoryIffSubscribed ==
    ~sweep.active =>
        \A uri \in Uris : uri \in DOMAIN topicsTopics <=> SubscribedSinceDestroyed(uri)

\* C9, witness: a payload was published to a uri and an UNSUBSCRIBE for it was
\* processed, no SUBSCRIBE was, and the uri has no directory entry.
PublishedNeverSubscribed ==
    /\ dropped # {}
    /\ topicsCmdDuct = <<>>
    /\ \E k \in DOMAIN lastCall : lastCall[k].op = "Unsubscribe"
    /\ topicList = <<>>
    /\ topicsTopics = EmptyMap

\* C10: the session manager has applied the ONLINE/OFFLINE commands in the
\* order they were sent on its command channel, and every topic worker has
\* applied its commands in the order the topic manager forwarded them.
AppliedInSendOrder ==
    /\ IsPrefix(sessApplied, sessSent)
    /\ \A t \in DOMAIN topicList : IsPrefix(topicList[t].applied, topicList[t].forwarded)

\* C10, witness: the session manager has applied two commands and a topic
\* worker has applied two commands.
TwoCommandsApplied ==
    /\ Len(sessApplied) >= 2
    /\ \E t \in DOMAIN topicList : Len(topicList[t].applied) >= 2

\* The OpenSession call that made duct d asked to wait.
OpenedWithWait(d) ==
    \E i \in 1..Len(sessSent) : /\ sessSent[i].cmd = "ONLINE"
                                 /\ sessSent[i].payloadDuct = d
                                 /\ sessSent[i].signalDone

\* The positions in sessApplied of the ONLINE command carrying duct d.
OnlineApplied(d) ==
    {i \in 1..Len(sessApplied) : /\ sessApplied[i].cmd = "ONLINE"
                                 /\ sessApplied[i].payloadDuct = d}

\* C11: an OpenSession with wait has returned only if the session manager has
\* applied its ONLINE command, and then, unless a later command for the same
\* key has been applied, a lookup by the key finds the session holding the
\* returned duct; an OpenSession without wait has returned whether or not its
\* ONLINE has been applied.
OpenSessionWaitsForOnline ==
    \A d \in DOMAIN ducts :
        IF OpenedWithWait(d)
        THEN ducts[d].opened =>
                 /\ OnlineApplied(d) # {}
                 /\ \A i \in OnlineApplied(d) :
                        (\A j \in AppliedFor(ducts[d].userId, ducts[d].sessionId) : j <= i)
                            => lookupSession(ducts[d].userId, ducts[d].sessionId) = d
        ELSE ducts[d].opened

\* C11, witness: an OpenSession with wait has returned and its session is
\* registered, and an OpenSession without wait has returned while its
\* ONLINE is still in the command duct.
WaitedAndNotWaited ==
    \E d, e \in DOMAIN ducts :
        /\ OpenedWithWait(d)
        /\ ducts[d].opened
        /\ lookupSession(ducts[d].userId, ducts[d].sessionId) = d
        /\ ~OpenedWithWait(e)
        /\ ducts[e].opened
        /\ OnlineApplied(e) = {}

\* C12 (as claimed): CloseSession can take each of its steps without any step
\* of the session manager or the topic manager: whenever a caller holds an
\* open duct there is room for its CLEAR in the topic manager's command duct,
\* and after the CLEAR there is room for its OFFLINE in the session
\* manager's command duct.
CloseSessionNeverBlocks ==
    ~panicked =>
        \A d \in DOMAIN ducts :
            /\ (ducts[d].opened /\ ducts[d].closing = 0)
                   => Len(topicsCmdDuct) < CMD_DUCT_BUFFER_MAX
            /\ ducts[d].closing = 1 => Len(sessionsCmdDuct) < CMD_DUCT_BUFFER_MAX

\* C16 (as claimed): only a read-deadline expiry or EOF ends the request
\* loop; after a message that does not decode the loop reads on.
OnlyEofOrTimeoutEndsApiLoop ==
    conn.apiLoop = "exited" => conn.exit \in {"eof", "timeout"}

\* C18 (as claimed): every response envelope the server writes carries the
\* request id of the request the loop read most recently, "" when that
\* request carries none.
ResponseEchoesRequestRid ==
    \A i \in 1..Len(conn.served) : conn.served[i].rid = conn.served[i].req

\* C13 (as claimed): a RestExec call is not left waiting for its response
\* longer than ResponseTimeout after it wrote the request.
RestExecWaitsAtMostResponseTimeout ==
    restExec.call # <<>> => now - restExec.call[1].sentAt <= ResponseTimeout

\* C14 (as claimed): an envelope that readLoop read with no RestExec waiting,
\* after a RestExec had timed out, is never handed to a later RestExec (the
\* call that returned last was not handed one).
LateResponseNeverHanded ==
    \A i \in DOMAIN restExec.done : restExec.done[i].got => ~restExec.done[i].late

\* C15 (as claimed): a RestExec handed an envelope whose id differs from the
\* id it sent returns ErrNotFound and leaves respData and respErr alone.
MismatchIsNotFound ==
    \A i \in DOMAIN restExec.done :
        LET r == restExec.done[i]
        IN  (r.got /\ r.gotRid # r.rid) =>
                (r.err = "ErrNotFound" /\ r.respData = "" /\ r.respErr = "")

\* C19: connErrorCb is called once when readLoop returns on a read timeout or
\* another read error, not at all when it returns on EOF or after the one
\* response of once mode, and not while readLoop runs.
ConnErrorCbExactlyOnce ==
    client.cb = IF client.readLoop = "exited" /\ client.exit \in {"timeout", "error"}
                THEN 1 ELSE 0

\* readLoop has returned on a failed read and connErrorCb was called once.
ReadLoopReturnedOnError == client.readLoop = "exited" /\ client.exit = "error" /\ client.cb = 1

\* C20 (as claimed, for the values json.Marshal encodes): when the handler
\* answers a request of RestExec with wsReturnOk(v), RestExec returns nil
\* with respData equal to v and respErr untouched.  The k-th call that is
\* handed an envelope is handed the k-th response the request loop wrote.
RoundTrip ==
    \A i \in DOMAIN restExec.done :
        LET r == restExec.done[i]
            a == conn.served[restExec.answered]
        IN  (r.got /\ a.ok /\ a.v \in Values) =>
                (r.err = "nil" /\ r.respData = a.v /\ r.respErr = "")

\* One of the two loops of the connection has left its loop.
EitherLoopExited == conn.apiLoop = "exited" \/ conn.pushLoop \in {"closing", "exited"}

\* Both loops have returned, CloseSession was called once and has closed the
\* connection's duct, the ticker is stopped and the websocket closed.
TornDown ==
    /\ conn.apiLoop = "exited"
    /\ conn.pushLoop = "exited"
    /\ conn.closes = 1
    /\ ducts[conn.duct].closed
    /\ conn.ticker = "stopped"
    /\ wire.serverClosed

\* C17 (as claimed): once either loop of a connection has exited, the other
\* exits too, the session is closed exactly once with the connection's duct,
\* the ping ticker is stopped and the websocket is closed.
JointTeardown == EitherLoopExited ~> TornDown

----------------------------------------------------------------------------
\* Producers: Publish, the broker and PushToUser.

\* The places of payload id in the payload ducts of the topics.
PlacedAt(id) ==
    UNION {{<<t, i>> : i \in {j \in DOMAIN topicList[t].payloadDuct :
                                 topicList[t].payloadDuct[j].Data = id}} :
           t \in DOMAIN topicList}

\* How many times payload id was placed on a topic's payload duct: it is
\* still there, or the worker has taken it.
Placed(id) == Cardinality(PlacedAt(id)) + (IF id \in DOMAIN fanned THEN 1 ELSE 0)

\* Payload id was written to a session's payload duct.
WrittenToDuct(id) == \E d \in DOMAIN ducts : CountIn(id, ducts[d].written) >= 1

\* The Publish calls that built their payload.
Published == {id \in DOMAIN calls : calls[id].fn = "Publish" /\ calls[id].obj = "ok"}

\* A Publish that found no topic has returned nil, its payload is in no
\* channel, and every topic there is was started for a SUBSCRIBE.
DroppedSilently(id) ==
    /\ calls[id].ret = "nil"
    /\ Placed(id) = 0
    /\ ~WrittenToDuct(id)
    /\ \A e \in egress : e.payload.Data # id
    /\ \A t \in DOMAIN topicList : topicList[t].forwarded # <<>>

\* C21 (as claimed): with the broker disabled, a Publish that found no topic
\* in the directory returns no error, creates no topic and writes its payload
\* into no channel; a Publish that found the topic places the payload on the
\* topic's payload channel exactly once: until it has, it can still do so.
PublishDeliversOrDrops ==
    DisableBroker =>
        \A id \in Published :
            IF calls[id].found = 0 THEN DroppedSilently(id)
            ELSE \/ calls[id].ret = "pending" /\ Placed(id) = 0 /\ ~panicked
                 \/ calls[id].ret = "nil" /\ Placed(id) = 1

\* C21 without the send on the closed payload channel of a stopped topic
\* (C34): holds.
PublishDeliversOrDropsUnlessPanic ==
    DisableBroker =>
        \A id \in Published :
            IF calls[id].found = 0 THEN DroppedSilently(id)
            ELSE \/ calls[id].ret = "pending" /\ Placed(id) = 0
                 \/ calls[id].ret = "nil" /\ Placed(id) = 1

\* C22: a step in which the broker's subscription delivers payload p changes
\* the local topic state and the output channels exactly as the processEgress
\* of a local Publish does (the payload waits to be sent to the directory's
\* topic, or is dropped); with the broker enabled, a step in which Publish
\* builds a payload appends it to what the broker was handed and leaves the
\* topics, their channels and the pending local sends alone.
BrokerDeliveryIsLocalPublish ==
    [][/\ \A p \in fromBroker' \ fromBroker :
              processEgress(p) /\ UNCHANGED <<topicVars, sessionVars, ducts>>
       /\ ~DisableBroker =>
              \A id \in Published' \ Published :
                  /\ \E uri \in Uris : broker' = Append(broker, BuildPushPayload(uri, id))
                  /\ calls'[id].ret = "nil"
                  /\ UNCHANGED <<topicVars, sessionVars, ducts, egress, dropped>>]_vars

\* C22, witness: a payload delivered by the broker has reached a subscriber's
\* output channel, and a Publish has handed a payload to the broker.
BrokerPayloadFannedOut ==
    /\ \E p \in fromBroker : WrittenToDuct(p.Data)
    /\ broker # <<>>

\* The PushToUser calls made so far.
PushToUserCalls == {id \in DOMAIN calls : calls[id].fn = "PushToUser"}

\* C25: a PushToUser call that found no session of the user did not invoke
\* BuildPushPayload, wrote into no output channel and returned nil, whatever
\* the object; a call that found sessions and whose object fails to build
\* returned the error, and no output channel received anything from it.
PushToUserBuildsOnlyWhenOnline ==
    \A id \in PushToUserCalls :
        /\ calls[id].found = 0 =>
               /\ ~calls[id].built
               /\ calls[id].ret = "nil"
               /\ ~WrittenToDuct(id)
        /\ calls[id].found > 0 /\ calls[id].obj = "bad" =>
               /\ calls[id].ret = "error"
               /\ ~WrittenToDuct(id)

\* C25, witness: a call with a failing object found no session, and another
\* found one.
FailingObjectOfflineAndOnline ==
    /\ \E id \in PushToUserCalls : calls[id].found = 0 /\ calls[id].obj = "bad"
    /\ \E id \in PushToUserCalls : calls[id].found > 0 /\ calls[id].obj = "bad"

----------------------------------------------------------------------------
\* Fan-out under a single publisher.

\* The fan-out of topic t has yet to serve subscriber skey, whose output
\* channel is full.
BlockedOn(t, skey) ==
    /\ ~panicked
    /\ t \in DOMAIN topicList
    /\ topicList[t].fan # <<>>
    /\ skey \in topicList[t].fan[1].rem
    /\ Len(ducts[topicList[t].subscribers[skey]].buf) >= DATA_DUCT_BUFFER_MAX

\* After the step the worker of t is alive and skey is still to be served
\* with the same payload (the worker may have served another subscriber).
StillWaiting(t, skey) ==
    /\ ~panicked'
    /\ topicList'[t].fan # <<>>
    /\ topicList'[t].fan[1].payload = topicList[t].fan[1].payload
    /\ skey \in topicList'[t].fan[1].rem

\* The step has written the payload of t's fan-out into skey's channel, and
\* the remaining subscribers are still to be served by a live worker.
SentTo(t, skey) ==
    LET d == topicList[t].subscribers[skey]
        left == topicList[t].fan[1].rem \ {skey}
    IN  /\ ~panicked'
        /\ ducts'[d].written = Append(ducts[d].written, topicList[t].fan[1].payload.Data)
        /\ IF left = {} THEN topicList'[t].fan = <<>>
           ELSE /\ topicList'[t].fan # <<>>
                /\ topicList'[t].fan[1].payload = topicList[t].fan[1].payload
                /\ topicList'[t].fan[1].rem = left

\* C23 (as claimed): while a fan-out has yet to serve a subscriber whose
\* output channel is full, every step leaves the worker alive with that
\* subscriber still to be served with the same payload (nothing dropped,
\* nobody skipped), or writes the payload into that subscriber's channel and
\* leaves the remaining subscribers to be served.
BackpressureWithoutLoss ==
    [][\A t \in DOMAIN topicList : \A skey \in PushKeys :
           BlockedOn(t, skey) => StillWaiting(t, skey) \/ SentTo(t, skey)]_vars

\* C23 without the send on a closed output channel (C33): the worker stays
\* at the full channel, or the step is its panic.
BackpressureUnlessPanic ==
    [][\A t \in DOMAIN topicList : \A skey \in PushKeys :
           BlockedOn(t, skey) =>
               StillWaiting(t, skey) \/ SentTo(t, skey) \/ panicked']_vars

----------------------------------------------------------------------------
\* CLEAR, STOP and unresolved sessions.

\* The CLEAR that CloseSession sent for duct d has been applied by
\* topicMgrLoop, and no Subscribe or Unsubscribe call was made for the key
\* after it.
ClearApplied(d) ==
    /\ ducts[d].clear > 0
    /\ \A i \in DOMAIN topicsCmdDuct : topicsCmdDuct[i].id # ducts[d].clear
    /\ \A uri \in Uris :
           CallKey(d, uri) \in DOMAIN lastCall => LastCallOf(d, uri).id < ducts[d].clear

\* The workers that have not returned have emptied their command channels.
WorkersDrained ==
    \A t \in DOMAIN topicList : ~topicList[t].stopped => topicList[t].cmdDuct = <<>>

\* The topics there are: the ones of the directory and the ones whose worker
\* is running.
Topics == Range(topicsTopics) \cup {t \in DOMAIN topicList : ~topicList[t].stopped}

ClearRemovesEverywhere ==
    \A d \in DOMAIN ducts :
        (ClearApplied(d) /\ WorkersDrained) =>
            LET skey == SessionKeyOf(ducts[d].userId, ducts[d].sessionId)
            IN  /\ \A t \in DOMAIN topicList : skey \notin DOMAIN topicList[t].subscribers
                /\ skey \notin DOMAIN topicsSubscriptions

LiveDucts(userId, sessionId) ==
    {d \in DOMAIN ducts : /\ ducts[d].userId = userId
                          /\ ducts[d].sessionId = sessionId
                          /\ ~ducts[d].closed}

\* The last session command applied for the key is an ONLINE: the registry
\* maps the key to the channel it carried.
LastOnlineRegistered(userId, sessionId) ==
    LET app == AppliedFor(userId, sessionId)
    IN  app # {} =>
            LET last == CHOOSE i \in app : \A j \in app : j <= i
            IN  sessApplied[last].cmd = "ONLINE" =>
                    lookupSession(userId, sessionId) = sessApplied[last].payloadDuct

\* C27 (as claimed): at any time a session key has at most one output channel
\* that is open and not yet closed, and right after an ONLINE for channel C is
\* applied the registry maps the key to C.
SessionUniqueness ==
    \A u \in UserIds, s \in SessionIds :
        /\ Cardinality(LiveDucts(u, s)) <= 1
        /\ LastOnlineRegistered(u, s)

\* The part of C27 the code keeps: the registry, a map, records one channel
\* per key, the one of the last ONLINE applied.
RegistryUniqueness ==
    \A u \in UserIds, s \in SessionIds : LastOnlineRegistered(u, s)

\* The worker of topic t has dequeued STOP.
Stopped(t) == t \in DOMAIN topicList /\ topicList[t].stopped

\* C28: a worker dequeues STOP at its select, outside any fan-out, and STOP is
\* the last command it applies; once it has, no step changes what the worker
\* has applied, its subscriber set or the payloads it has taken, and no step
\* adds to or takes from its two channels, which are closed: what was buffered
\* in them stays there.
StopTerminatesWorker ==
    /\ [](\A t \in DOMAIN topicList :
              topicList[t].stopped =>
                  /\ topicList[t].fan = <<>>
                  /\ topicList[t].applied[Len(topicList[t].applied)].cmd = "STOP")
    /\ [][\A t \in DOMAIN topicList :
              topicList[t].stopped =>
                  /\ topicList'[t] = topicList[t]
                  /\ \A p \in DOMAIN fanned' \ DOMAIN fanned : fanned'[p].topic # t]_vars

\* C28, witness: a worker has returned after STOP with a payload still
\* buffered in its payload channel.
StoppedWithBufferedPayload ==
    \E t \in DOMAIN topicList : topicList[t].stopped /\ topicList[t].payloadDuct # <<>>

\* No OpenSession was ever made for the key: lookupSession cannot resolve it.
NeverOpened(userId, sessionId) ==
    \A d \in DOMAIN ducts : ~(ducts[d].userId = userId /\ ducts[d].sessionId = sessionId)

\* The places where the workers applied the command with this id.
AppliedAt(id) ==
    UNION {{<<t, i>> : i \in {j \in DOMAIN topicList[t].applied :
                                 topicList[t].applied[j].id = id}} :
           t \in DOMAIN topicList}

\* The Subscribe calls for sessions that cannot be resolved which a worker
\* has applied and which are the last call of their key for the uri.
UnresolvedSubscribes ==
    {k \in DOMAIN lastCall :
        /\ lastCall[k].op = "Subscribe"
        /\ AppliedAt(lastCall[k].id) # {}
        /\ \E u \in UserIds, s \in SessionIds :
               k[1] = SessionKeyOf(u, s) /\ NeverOpened(u, s)}

\* The command was applied once and waits in no channel, the caller is
\* released, and the key is in the subscriber set of no topic.
DroppedByWorker(k) ==
    /\ Cardinality(AppliedAt(lastCall[k].id)) = 1
    /\ \A i \in DOMAIN topicsCmdDuct : topicsCmdDuct[i].id # lastCall[k].id
    /\ \A t \in DOMAIN topicList :
           /\ \A i \in DOMAIN topicList[t].cmdDuct :
                  topicList[t].cmdDuct[i].id # lastCall[k].id
           /\ k[1] \notin DOMAIN topicList[t].subscribers
    /\ lastCall[k].id \in returned

\* C29 (as claimed): after a worker has applied a SUBSCRIBE for a session the
\* registry cannot resolve, the key is neither in a topic's subscriber set nor
\* in the subscription index, the command is not retried and the waiting
\* caller is released.
UnresolvedSubscribeIsNoOp ==
    \A k \in UnresolvedSubscribes :
        /\ DroppedByWorker(k)
        /\ k[1] \notin DOMAIN topicsSubscriptions

\* The part of C29 the code keeps: everything but the subscription index.
UnresolvedSubscribeDroppedByWorker ==
    \A k \in UnresolvedSubscribes : DroppedByWorker(k)

----------------------------------------------------------------------------
\* The push loop's envelopes.

\* The message a payload alone determines: a new envelope with Push set and
\* the payload's kind, operation, uri and data.
EnvelopeOf(payload) ==
    EncodeEnvelope([ZeroEnvelope EXCEPT !.Push = TRUE, !.Rid = payload.Kind,
                                        !.Method = payload.Op, !.Uri = payload.Uri,
                                        !.Data = payload.Json])

\* The payloads pushLoop received are those that left its output channel, in
\* the order they were put there.
TakenInChannelOrder ==
    conn.duct # 0 =>
        [i \in 1..Len(conn.taken) |-> conn.taken[i].Data] = Observed(conn.duct)

\* C30: the messages pushLoop wrote are, in order, the envelopes of the
\* payloads it received from the session's output channel, one for each:
\* every one has Push true and the uri, the data and the operation of its own
\* payload, also when an earlier payload had data and this one has none.
\* Only the last payload received may lack its message, when its write
\* returned an error, and pushLoop has then left its loop.
PushLoopWritesEachPayloadOnce ==
    /\ TakenInChannelOrder
    /\ Len(conn.pushes) \in {Len(conn.taken), Len(conn.taken) - 1}
    /\ Len(conn.pushes) < Len(conn.taken) => conn.pushLoop \in {"closing", "exited"}
    /\ \A i \in 1..Len(conn.pushes) :
           /\ conn.pushes[i] = EnvelopeOf(conn.taken[i])
           /\ conn.pushes[i].f.Push
           /\ conn.pushes[i].f.Uri = conn.taken[i].Uri
           /\ conn.pushes[i].f.Method = conn.taken[i].Op
           /\ IF conn.taken[i].Json = "" THEN "Data" \notin DOMAIN conn.pushes[i].f
              ELSE conn.pushes[i].f.Data = conn.taken[i].Json

\* pushLoop wrote a payload with data and then one without, and the two
\* differ in kind and operation as well.
TwoDifferentPayloadsWritten ==
    \E i \in 1..Len(conn.pushes) : \E j \in 1..Len(conn.pushes) :
        /\ i < j
        /\ conn.taken[i].Json # ""
        /\ conn.taken[j].Json = ""
        /\ conn.taken[i].Kind # conn.taken[j].Kind
        /\ conn.taken[i].Op # conn.taken[j].Op

----------------------------------------------------------------------------
\* Requests without a handler.

\* The request at the head of what apiLoop reads names a uri that does not
\* parse or a path without a handler.
UnroutedAtHead ==
    /\ conn.apiLoop = "read"
    /\ wire.toServer # <<>>
    /\ Head(wire.toServer).type = "json"
    /\ Head(wire.toServer).f.Uri \in InvalidUris \cup (RequestUris \ RoutedUris)

\* The message is an error envelope for ErrInvalidMethod, without data.
IsInvalidMethodError(m) ==
    /\ m.type = "json"
    /\ "Error" \in DOMAIN m.f
    /\ m.f.Error = ErrJson("ErrInvalidMethod")
    /\ "Data" \notin DOMAIN m.f

\* C31: when apiLoop reads a request whose uri does not parse or whose path
\* has no handler, that step writes exactly one message, an error envelope
\* (none reaches a connection the client has closed), apiLoop is reading
\* again with the websocket open on its side, and no handler ran: the
\* request is recorded as served by no handler's reply.
UnroutedRequestGetsOneError ==
    [][UnroutedAtHead /\ wire'.toServer = Tail(wire.toServer) =>
          /\ conn'.apiLoop = "read"
          /\ ~wire'.serverClosed
          /\ wire'.toClient = IF WireClosed(wire) THEN wire.toClient
                              ELSE Append(wire.toClient,
                                          wire'.toClient[Len(wire'.toClient)])
          /\ ~WireClosed(wire) => IsInvalidMethodError(wire'.toClient[Len(wire'.toClient)])
          /\ Len(conn'.served) = Len(conn.served) + 1
          /\ ~conn'.served[Len(conn'.served)].ok
          /\ conn'.served[Len(conn'.served)].v = ""]_vars

\* apiLoop has answered a request with an unparsable uri and one with a path
\* that has no handler, each with an error envelope, and is reading.
TwoUnroutedAnswered ==
    /\ conn.apiLoop = "read"
    /\ Len(conn.served) = 2
    /\ Len(wire.toClient) = 2
    /\ \A i \in 1..2 : IsInvalidMethodError(wire.toClient[i])
    /\ wire.toClient[1].f.Uri \in InvalidUris
    /\ wire.toClient[2].f.Uri \in RequestUris \ (RoutedUris \cup InvalidUris)

----------------------------------------------------------------------------
\* Liveness detection on the server.

\* apiLoop has returned and the websocket is closed on the server's side.
Disconnected == conn.apiLoop = "exited" /\ wire.serverClosed

\* C32: once the client has fallen silent, apiLoop returns and the websocket
\* is closed, and apiLoop never reads past its deadline, which is PingTimeout
\* after the last request or pong it read; as long as the client answers the
\* pings, apiLoop does not return on a read timeout.
LivenessDetection ==
    /\ [](conn.exit = "timeout" => wire.deaf /\ now >= conn.deadline)
    /\ [](conn.apiLoop = "read" /\ ~WireClosed(wire) => now <= conn.deadline)
    /\ [](conn.apiLoop = "exited" => wire.serverClosed)
    /\ [][conn'.deadline # conn.deadline =>
              /\ wire.toServer # <<>>
              /\ Head(wire.toServer).type \in {"json", "pong"}
              /\ wire'.toServer = Tail(wire.toServer)
              /\ conn'.deadline = now + PingTimeout]_vars
    /\ (wire.deaf ~> Disconnected)

\* A client that answered a ping and then fell silent was disconnected by
\* the read deadline, later than PingTimeout after the connection began.
SilentClientTimedOut ==
    /\ conn.exit = "timeout"
    /\ wire.deaf
    /\ Disconnected
    /\ now > PingTimeout

----------------------------------------------------------------------------
\* Writers and closed output channels.

\* Topic worker t is in a fan-out that has yet to send to a subscriber whose
\* output channel is closed.
WorkerFacesClosedDuct(t) ==
    /\ topicList[t].fan # <<>>
    /\ \E skey \in topicList[t].fan[1].rem : ducts[topicList[t].subscribers[skey]].closed

\* A PushToUser call has yet to send to a session whose output channel is
\* closed.
PushFacesClosedDuct ==
    /\ pushCall # <<>>
    /\ \E skey \in pushCall[1].rem : ducts[SessionsOf(pushCall[1].userId)[skey]].closed

\* C33: no topic worker and no PushToUser call is about to send, or blocked
\* sending, to an output channel that CloseSession has closed.
NoWriteToClosedDuct ==
    /\ \A t \in DOMAIN topicList : ~WorkerFacesClosedDuct(t)
    /\ ~PushFacesClosedDuct

\* The same for PushToUser alone: CloseSession closes the channel as soon as
\* OFFLINE is queued, while the registry still holds the session.
PushNeverFacesClosedDuct == ~PushFacesClosedDuct

----------------------------------------------------------------------------
\* Publishers and stopped topics.

\* C34: the topic a publisher read from the directory and has yet to send
\* its payload to is never one whose worker has processed STOP and closed
\* the payload channel.
NoPublishToStoppedTopic == \A e \in egress : ~topicList[e.topic].stopped

----------------------------------------------------------------------------
\* Reconnects.

\* Output channel d is the one of the newer connection of its key: an older
\* channel was opened for the same user and session, the registry records d,
\* and d's connection has not begun CloseSession.
NewerSession(d) ==
    LET skey == SessionKeyOf(ducts[d].userId, ducts[d].sessionId)
    IN  /\ ducts[d].closing = 0
        /\ \E old \in 1..(d - 1) :
               /\ ducts[old].userId = ducts[d].userId
               /\ ducts[old].sessionId = ducts[d].sessionId
        /\ skey \in DOMAIN SessionsOf(ducts[d].userId)
        /\ SessionsOf(ducts[d].userId)[skey] = d

\* The command at the head of the channel is the CLEAR that CloseSession of
\* an older connection of d's key sent.
OlderClearAtHead(duct, d) ==
    /\ duct # <<>>
    /\ Head(duct).cmd = "CLEAR"
    /\ \E old \in 1..(d - 1) :
           /\ ducts[old].userId = ducts[d].userId
           /\ ducts[old].sessionId = ducts[d].sessionId
           /\ ducts[old].clear = Head(duct).id

\* C35: when the topic registry or a topic worker applies the CLEAR of an
\* older connection, the subscriptions of the newer session of the same key,
\* those whose subscriber entry holds the newer channel, stay: the uri stays
\* in the subscription index and the key stays in the subscriber set.
ReconnectKeepsSubscriptions ==
    [][\A d \in DOMAIN ducts : NewerSession(d) =>
          LET skey == SessionKeyOf(ducts[d].userId, ducts[d].sessionId)
              Mine(t) == /\ skey \in DOMAIN topicList[t].subscribers
                         /\ topicList[t].subscribers[skey] = d
          IN  /\ OlderClearAtHead(topicsCmdDuct, d) /\ topicsCmdDuct' = Tail(topicsCmdDuct) =>
                     \A uri \in DOMAIN topicsTopics :
                         Mine(topicsTopics[uri]) /\ uri \in SubscriptionsOf(topicsSubscriptions, skey)
                             => uri \in SubscriptionsOf(topicsSubscriptions', skey)
              /\ \A t \in DOMAIN topicList :
                     /\ OlderClearAtHead(topicList[t].cmdDuct, d)
                     /\ topicList'[t].cmdDuct = Tail(topicList[t].cmdDuct)
                     /\ Mine(t)
                     => skey \in DOMAIN topicList'[t].subscribers]_vars

----------------------------------------------------------------------------
\* Subscriber references.

\* Nothing is pending: both registries and every running worker have applied
\* every command sent, no fan-out, sweep or call is under way.
EngineAtRest ==
    /\ ~panicked
    /\ sessionsCmdDuct = <<>>
    /\ topicsCmdDuct = <<>>
    /\ ~sweep.active
    /\ egress = {}
    /\ pushCall = <<>>
    /\ \A t \in DOMAIN topicList :
           topicList[t].stopped
               \/ (topicList[t].cmdDuct = <<>> /\ topicList[t].payloadDuct = <<>>
                      /\ topicList[t].fan = <<>>)
    /\ \A d \in DOMAIN ducts : ducts[d].closing \in {0, 3}

\* C36: at rest, every entry of the subscriber set of a running topic holds
\* the output channel the session registry records for the entry's key.
SubscriberReferencesCurrent ==
    EngineAtRest =>
        \A t \in DOMAIN topicList : ~topicList[t].stopped =>
            \A skey \in DOMAIN topicList[t].subscribers :
                \E u \in DOMAIN sessionsUsers :
                    /\ skey \in DOMAIN sessionsUsers[u]
                    /\ sessionsUsers[u][skey] = topicList[t].subscribers[skey]

----------------------------------------------------------------------------
\* Writers of the websocket.

\* C37: apiLoop's write of a response and pushLoop's write of a push
\* envelope or of a ping are never in progress at the same time.
SingleWriterOnTransport == ~(conn.apiWrite /\ conn.pushWrite)

----------------------------------------------------------------------------
\* The client's rendezvous channel.

\* C38: readLoopSync is never closed a second time and never sent on while
\* or after it is closed: the client process does not panic on it.
RendezvousClosedOnce == ~client.panic

----------------------------------------------------------------------------
\* The cleanup sweep and the workers.

\* The sweep holds topic t's read lock and cannot send STOP: cmdDuct is full.
SweepWaitsForRoom(t) ==
    /\ sweep.locked # ""
    /\ sweep.locked \in DOMAIN topicsTopics
    /\ topicsTopics[sweep.locked] = t
    /\ DOMAIN topicList[t].subscribers = {}
    /\ CmdDuctFull(topicList, t)

\* Worker t has received a command that needs the topic's exclusive lock,
\* which the sweep's read lock keeps from it.
WorkerWaitsForLock(t) ==
    /\ topicList[t].taken = 1
    /\ Head(topicList[t].cmdDuct).cmd # "STOP"
    /\ SweepHoldsTopic(t)

\* The sweep that has begun ends, releasing the directory's lock and the
\* topics' read locks.
SweepCompletes == sweep.active ~> ~sweep.active

\* C39: the registry and a topic worker never wait on each other: the
\* registry, holding a topic's read lock, never waits for room in the
\* command channel of a topic whose worker, holding a command it received,
\* waits for the topic's exclusive lock.
SweepNeverDeadlocks ==
    \A t \in DOMAIN topicList : ~(SweepWaitsForRoom(t) /\ WorkerWaitsForLock(t))

----------------------------------------------------------------------------
\* A subscriber that never receives.

\* A command for the topic with this uri waits in the registry's channel.
CommandWaits(uri) == \E i \in DOMAIN topicsCmdDuct : topicsCmdDuct[i].uri = uri

\* The registry cannot forward the command at the head of its channel: the
\* command is for the topic with this uri, whose command channel is full.
RegistryWaitsOn(uri) ==
    /\ topicsCmdDuct # <<>>
    /\ Head(topicsCmdDuct).uri = uri
    /\ uri \in DOMAIN topicsTopics
    /\ CmdDuctFull(topicList, topicsTopics[uri])

\* C40: a subscriber of t1 that never receives stalls t1 only: while t1's
\* worker is blocked on that subscriber's output channel, the registry is
\* never kept by a command for t1 from applying a waiting command for t2.
StallIsolation ==
    ~(WorkerStalled("t1") /\ RegistryWaitsOn("t1") /\ CommandWaits("t2"))

\* The same as progress: a command for t2 that waits in the registry's
\* channel is eventually taken from it.
OtherTopicCommandApplied == CommandWaits("t2") ~> ~CommandWaits("t2")

====
